---- MODULE Spec2Model ----
(***************************************************************************)
(* The dynamic entity / attribute / EAV data engine of FLASKEAV:           *)
(* typed value stores, instance create / update / soft delete, the entity  *)
(* routes of app.py with their permission checks, the read paths and the   *)
(* role / permission tables.                                               *)
(***************************************************************************)
EXTENDS Integers, Sequences, FiniteSets, TLC

(***************************************************************************)
(* Bounds of the model.                                                    *)
(***************************************************************************)
\* rows of entity_instances
MaxInstances == 2
\* requests that read datetime.utcnow() (create, update, soft delete)
MaxTime == 2
\* entries of an attribute_values dictionary
MaxEntries == 2

(***************************************************************************)
(* Python / SQL values.  One record shape for every value so that values   *)
(* of different Python types can be compared: t is the type, s the text of *)
(* a str, n the number (hundredths for float and Decimal, 0/1 for bool,    *)
(* a tick for datetime).                                                   *)
(***************************************************************************)
NULL == [t |-> "null", s |-> "", n |-> 0]
Str(s) == [t |-> "str", s |-> s, n |-> 0]
Float(n) == [t |-> "float", s |-> "", n |-> n]
Decimal(n) == [t |-> "decimal", s |-> "", n |-> n]
Bool(b) == [t |-> "bool", s |-> "", n |-> IF b THEN 1 ELSE 0]
Datetime(n) == [t |-> "datetime", s |-> "", n |-> n]

\* the texts that float() parses, with their value in hundredths
FloatLiterals == {<<"7.5", 750>>, <<"12", 1200>>}

\* the texts that strptime(value, '%Y-%m-%d') parses, with their tick
DateLiterals == {<<"2024-01-01", 1>>}

\* str(value)
py_str(v) ==
    CASE v.t = "str" -> v
      [] v.t = "bool" -> Str(IF v.n = 1 THEN "True" ELSE "False")
      [] v.t = "datetime" -> Str("2024-01-01 00:00:00")
      [] v.t = "float" /\ v.n = 750 -> Str("7.5")
      [] v.t = "float" /\ v.n = 1200 -> Str("12.0")
      [] v.t = "decimal" /\ v.n = 750 -> Str("7.500000")
      [] v.t = "decimal" /\ v.n = 1200 -> Str("12.000000")
      [] OTHER -> Str("?")

\* float(value): ok is FALSE where Python raises ValueError / TypeError
py_float(v) ==
    CASE v.t = "float" -> [ok |-> TRUE, v |-> v]
      [] v.t = "bool" -> [ok |-> TRUE, v |-> Float(100 * v.n)]
      [] v.t = "str" /\ (\E l \in FloatLiterals : l[1] = v.s) ->
            [ok |-> TRUE, v |-> Float((CHOOSE l \in FloatLiterals : l[1] = v.s)[2])]
      [] OTHER -> [ok |-> FALSE, v |-> NULL]

\* bool(value)
py_bool(v) ==
    CASE v.t = "str" -> Bool(v.s # "")
      [] v.t \in {"float", "decimal", "bool"} -> Bool(v.n # 0)
      [] v.t = "null" -> Bool(FALSE)
      [] OTHER -> Bool(TRUE)

\* what a Numeric(20, 6) column holds and returns for a bound float
NumericColumn(v) == Decimal(v.n)

\* whether json.dumps serialises a value (the JSON columns of AuditLog)
JsonSerializable(v) == v.t \notin {"datetime", "decimal"}

(***************************************************************************)
(* Schema registry: entity types and users are fixed rows.                 *)
(***************************************************************************)
EntityTypeIds == {1, 2}
InstanceIds == 1..MaxInstances

\* users.id |-> users.username ; 3 is the id of no row of users
Users == [id \in {1, 2} |-> IF id = 1 THEN "alice" ELSE "bob"]
UserIds == {1, 2, 3}
RoleIds == {1, 2}

DataTypes == {"VARCHAR", "TEXT", "INT", "BIGINT", "DECIMAL", "BOOLEAN",
              "DATE", "DATETIME", "TIMESTAMP", "JSON"}

AttrDef(id, et, code, dt, req, uniq) ==
    [id |-> id, entity_type_id |-> et, code |-> code, data_type |-> dt,
     is_required |-> req, is_unique |-> uniq, is_active |-> TRUE]

\* the attribute_definitions rows the designer has created
SeedAttributes ==
    { AttrDef(1, 1, "NAME", "VARCHAR", TRUE, TRUE),
      AttrDef(2, 1, "QTY", "DECIMAL", FALSE, FALSE),
      AttrDef(3, 1, "META", "JSON", FALSE, FALSE),
      AttrDef(4, 2, "NAME", "TEXT", FALSE, FALSE),
      AttrDef(5, 2, "DONE", "BOOLEAN", FALSE, FALSE),
      AttrDef(6, 2, "ETA", "DATETIME", FALSE, FALSE) }

AttributeCodes == {"NAME", "QTY", "META", "DONE", "ETA"}

FormTypes == {"LIST", "CREATE", "EDIT", "DETAIL"}

\* the form_field_configurations rows the designer has created: each form of
\* an entity type shows every attribute of the type, in attribute order
\* (0 is the NULL of a foreign key column). The META field of entity type 1
\* is a SELECT whose options are the NAME values of entity type 2.
SeedFormFields ==
    { [form_type |-> ft, entity_type_id |-> a.entity_type_id,
       attribute_definition_id |-> a.id, order_index |-> a.id,
       is_visible |-> TRUE, is_editable |-> TRUE, is_required |-> FALSE,
       field_type |-> IF a.id = 3 THEN "SELECT" ELSE "TEXT",
       dropdown_source_entity_id |-> IF a.id = 3 THEN 2 ELSE 0,
       dropdown_source_attribute_id |-> IF a.id = 3 THEN 4 ELSE 0,
       dropdown_display_attribute_id |-> 0,
       show_unique_values_only |-> FALSE] :
         ft \in FormTypes, a \in SeedAttributes }

SessionIds == {1, 2}

\* a session no request is using
IdleSession ==
    [pc |-> "idle", instance_id |-> 0, code |-> "", value |-> NULL,
     seq |-> 0, error |-> ""]

VARIABLES
    attribute_definitions,  \* rows of attribute_definitions
    entity_instances,       \* rows of entity_instances
    text_values,            \* rows of attribute_values_text
    numeric_values,         \* rows of attribute_values_numeric
    datetime_values,        \* rows of attribute_values_datetime
    boolean_values,         \* rows of attribute_values_boolean
    audit_log,              \* rows of audit_log
    user_roles,             \* rows of user_roles: <<user_id, role_id>>
    entity_permissions,     \* rows of entity_permissions
    form_field_configurations, \* rows of form_field_configurations
    sessions,               \* the database sessions of requests in flight
    clock,                  \* the last reading of datetime.utcnow()
    last                    \* the last request served and its outcome

vars == <<attribute_definitions, entity_instances, text_values, numeric_values,
          datetime_values, boolean_values, audit_log, user_roles,
          entity_permissions, form_field_configurations, sessions, clock, last>>

dataVars == <<entity_instances, text_values, numeric_values, datetime_values,
              boolean_values, audit_log>>

permVars == <<user_roles, entity_permissions>>

schemaVars == <<attribute_definitions, form_field_configurations>>

\* the committed tables a request's session works on
DB == [attrs |-> attribute_definitions,
       instances |-> entity_instances,
       text |-> text_values,
       numeric |-> numeric_values,
       datetime |-> datetime_values,
       boolean |-> boolean_values,
       audit |-> audit_log,
       fields |-> form_field_configurations]

StoreNames == {"text", "numeric", "datetime", "boolean"}

MaxOf(S) == IF S = {} THEN 0 ELSE CHOOSE x \in S : \A y \in S : y <= x

RECURSIVE ById(_)
\* the rows of a table in primary-key order
ById(rows) ==
    IF rows = {} THEN <<>>
    ELSE LET f == CHOOSE x \in rows : \A y \in rows : x.id <= y.id
         IN <<f>> \o ById(rows \ {f})

\* the id an autoincrement primary key gives the next row of a table
NextId(rows) == MaxOf({r.id : r \in rows}) + 1

(***************************************************************************)
(* EntityInstance.get_attribute_value / set_attribute_value                *)
(***************************************************************************)
\* a variant of the lookup that matches the code alone, whatever the entity
\* type of the attribute
FindAttributeOfAnyType(db, entity_type_id, code) ==
    LET found == {a \in db.attrs : a.code = code}
    IN IF found = {} THEN NULL
       ELSE CHOOSE a \in found : \A b \in found : a.id >= b.id

\* AttributeDefinition.query.filter_by(entity_type_id=..., code=...).first()
FindAttribute(db, entity_type_id, code) ==
    LET found == {a \in db.attrs : a.entity_type_id = entity_type_id /\ a.code = code}
    IN IF found = {} THEN NULL
       ELSE CHOOSE a \in found : \A b \in found : a.id <= b.id

GetInstance(db, instance_id) ==
    LET found == {i \in db.instances : i.id = instance_id}
    IN IF found = {} THEN NULL ELSE CHOOSE i \in found : TRUE

\* self.<store>_values.filter_by(attribute_definition_id=attr_def.id).first()
FirstRow(rows, instance_id, attr_id) ==
    LET found == {r \in rows : r.entity_instance_id = instance_id
                               /\ r.attribute_definition_id = attr_id}
    IN IF found = {} THEN NULL
       ELSE CHOOSE r \in found : \A q \in found : r.id <= q.id

\* the store get_attribute_value reads for a data type
ReadStore(data_type) ==
    CASE data_type \in {"VARCHAR", "TEXT"} -> "text"
      [] data_type \in {"INT", "BIGINT", "DECIMAL"} -> "numeric"
      [] data_type \in {"DATE", "DATETIME", "TIMESTAMP"} -> "datetime"
      [] data_type = "BOOLEAN" -> "boolean"
      [] OTHER -> "none"

get_attribute_value(db, instance_id, attribute_code) ==
    LET self == GetInstance(db, instance_id)
        attr_def == FindAttribute(db, self.entity_type_id, attribute_code)
        store == ReadStore(attr_def.data_type)
        value_obj == FirstRow(db[store], instance_id, attr_def.id)
    IN IF attr_def = NULL THEN NULL
       ELSE IF store = "none" THEN NULL
       ELSE IF value_obj = NULL THEN NULL ELSE value_obj.value

\* a variant that routes DECIMAL values to the text store
WriteStoreDecimalAsText(data_type) ==
    CASE data_type \in {"VARCHAR", "TEXT", "DECIMAL"} -> "text"
      [] data_type \in {"INT", "BIGINT"} -> "numeric"
      [] data_type \in {"DATE", "DATETIME", "TIMESTAMP"} -> "datetime"
      [] data_type = "BOOLEAN" -> "boolean"
      [] OTHER -> "none"

\* the store set_attribute_value writes for a data type
WriteStore(data_type) ==
    CASE data_type \in {"VARCHAR", "TEXT"} -> "text"
      [] data_type \in {"INT", "BIGINT", "DECIMAL"} -> "numeric"
      [] data_type \in {"DATE", "DATETIME", "TIMESTAMP"} -> "datetime"
      [] data_type = "BOOLEAN" -> "boolean"
      [] OTHER -> "none"

\* the value a store's column takes for a Python value; ok is FALSE where the
\* conversion raises (float()) or the column type refuses the value at flush
\* (SQLite's DateTime accepts datetime objects only)
Coerce(store, value) ==
    CASE store = "text" -> [ok |-> TRUE, v |-> py_str(value)]
      [] store = "numeric" ->
            LET f == py_float(value)
            IN IF f.ok THEN [ok |-> TRUE, v |-> NumericColumn(f.v)] ELSE f
      [] store = "datetime" ->
            IF value.t = "datetime" THEN [ok |-> TRUE, v |-> value]
            ELSE [ok |-> FALSE, v |-> NULL]
      [] store = "boolean" -> [ok |-> TRUE, v |-> py_bool(value)]
      [] OTHER -> [ok |-> FALSE, v |-> NULL]

\* db.session.add(new_value): the unique constraint unique_instance_attribute
\* refuses a second row for the pair.  A row's id is kept as its rank among
\* the rows of its pair (the first row of a pair has id 1).
InsertValueRow(rows, instance_id, attr_id, v) ==
    IF FirstRow(rows, instance_id, attr_id) # NULL
    THEN [ok |-> FALSE, rows |-> rows]
    ELSE [ok |-> TRUE,
          rows |-> rows \cup {[id |-> 1,
                               entity_instance_id |-> instance_id,
                               attribute_definition_id |-> attr_id,
                               value |-> v]}]

\* the result of set_attribute_value: the session's tables, the value
\* returned, whether an exception left the method, and the branch taken
SetResult(db, ret, raised, branch) ==
    [db |-> db, ret |-> ret, raised |-> raised, branch |-> branch]

\* a variant that leaves the existing row in place when the value is None
set_attribute_value_keeps_row(db, instance_id, attribute_code, value) ==
    LET self == GetInstance(db, instance_id)
        attr_def == FindAttribute(db, self.entity_type_id, attribute_code)
        store == WriteStore(attr_def.data_type)
        existing == FirstRow(db[store], instance_id, attr_def.id)
        c == Coerce(store, value)
    IN IF attr_def = NULL THEN SetResult(db, FALSE, FALSE, "unknown")
       ELSE IF store = "none" THEN SetResult(db, TRUE, FALSE, "no_store")
       ELSE IF existing # NULL
       THEN IF value # NULL
            THEN IF c.ok
                 THEN SetResult([db EXCEPT ![store] =
                                    (@ \ {existing}) \cup {[existing EXCEPT !.value = c.v]}],
                                TRUE, FALSE, "updated")
                 ELSE SetResult(db, FALSE, TRUE, "raised")
            ELSE SetResult(db, TRUE, FALSE, "deleted")
       ELSE IF value # NULL
            THEN IF c.ok
                 THEN LET ins == InsertValueRow(db[store], instance_id, attr_def.id, c.v)
                      IN SetResult([db EXCEPT ![store] = ins.rows], ins.ok, ~ins.ok,
                                   IF ins.ok THEN "inserted" ELSE "raised")
                 ELSE SetResult(db, FALSE, TRUE, "raised")
            ELSE SetResult(db, TRUE, FALSE, "nothing")

\* instance.set_attribute_value(attribute_code, value) on the session db
set_attribute_value(db, instance_id, attribute_code, value) ==
    LET self == GetInstance(db, instance_id)
        attr_def == FindAttribute(db, self.entity_type_id, attribute_code)
        store == WriteStore(attr_def.data_type)
        existing == FirstRow(db[store], instance_id, attr_def.id)
        c == Coerce(store, value)
    IN IF attr_def = NULL THEN SetResult(db, FALSE, FALSE, "unknown")
       ELSE IF store = "none" THEN SetResult(db, TRUE, FALSE, "no_store")
       ELSE IF existing # NULL
       THEN IF value # NULL
            THEN IF c.ok
                 THEN SetResult([db EXCEPT ![store] =
                                    (@ \ {existing}) \cup {[existing EXCEPT !.value = c.v]}],
                                TRUE, FALSE, "updated")
                 ELSE SetResult(db, FALSE, TRUE, "raised")
            ELSE SetResult([db EXCEPT ![store] = @ \ {existing}],
                           TRUE, FALSE, "deleted")
       ELSE IF value # NULL
            THEN IF c.ok
                 THEN LET ins == InsertValueRow(db[store], instance_id, attr_def.id, c.v)
                      IN SetResult([db EXCEPT ![store] = ins.rows], ins.ok, ~ins.ok,
                                   IF ins.ok THEN "inserted" ELSE "raised")
                 ELSE SetResult(db, FALSE, TRUE, "raised")
            ELSE SetResult(db, TRUE, FALSE, "nothing")

(***************************************************************************)
(* attribute_values dictionaries: a sequence of entries in iteration       *)
(* order, no code twice.                                                   *)
(***************************************************************************)
Entry(code, value) == [code |-> code, value |-> value]

\* the codes a caller's dictionary for an entity type draws on: for entity
\* type 1 its numeric and JSON attributes and a code the type does not have,
\* for entity type 2 its three attributes
RequestCodes(entity_type_id) ==
    IF entity_type_id = 1 THEN <<"QTY", "META", "ETA">>
    ELSE <<"NAME", "DONE", "ETA">>

RECURSIVE DictsFrom(_, _, _, _)
\* the dictionaries of at most n entries over the codes codes[k..]
DictsFrom(codes, k, n, values) ==
    IF k > Len(codes) \/ n = 0 THEN {<<>>}
    ELSE DictsFrom(codes, k + 1, n, values)
         \cup {<<Entry(codes[k], v)>> \o d :
                 v \in values, d \in DictsFrom(codes, k + 1, n - 1, values)}

Dicts(entity_type_id, values) ==
    DictsFrom(RequestCodes(entity_type_id), 1, MaxEntries, values)

ValueRows(db) == db.text \cup db.numeric \cup db.datetime \cup db.boolean

\* whether a failed request had written value rows before it failed
Partial(committed, session) ==
    IF ValueRows(session) # ValueRows(committed) THEN "partial" ELSE ""

\* a variant in which the writes of the failed request stay
RollbackKeepsSession(committed, session) == session

\* db.session.rollback(): the session returns to the committed tables
Rollback(committed, session) == committed

RECURSIVE SetEach(_, _, _, _)
\* for attr_code, value in attribute_values.items():
\*     instance.set_attribute_value(attr_code, value)
\* skipping None values when skip_none (the create path); stops at the
\* first exception
SetEach(db, instance_id, attribute_values, skip_none) ==
    IF attribute_values = <<>> THEN [db |-> db, raised |-> FALSE]
    ELSE LET e == Head(attribute_values)
             r == IF skip_none /\ e.value = NULL
                  THEN SetResult(db, TRUE, FALSE, "skipped")
                  ELSE set_attribute_value(db, instance_id, e.code, e.value)
         IN IF r.raised THEN [db |-> r.db, raised |-> TRUE]
            ELSE SetEach(r.db, instance_id, Tail(attribute_values), skip_none)

\* created_by or 'system'
OrSystem(name) == IF name = NULL \/ name = Str("") THEN Str("system") ELSE name

create_entity_instance_with_attributes(db, entity_type_id, attribute_values, created_by, now) ==
    LET instance == [id |-> NextId(db.instances),
                     entity_type_id |-> entity_type_id,
                     instance_code |-> NULL,
                     is_active |-> TRUE,
                     created_by |-> OrSystem(created_by),
                     updated_by |-> NULL,
                     created_at |-> now,
                     updated_at |-> now]
        flushed == [db EXCEPT !.instances = @ \cup {instance}]
        written == SetEach(flushed, instance.id, attribute_values, TRUE)
    IN IF written.raised
       THEN [db |-> Rollback(db, written.db), raised |-> TRUE, instance_id |-> 0,
             note |-> Partial(db, written.db)]
       ELSE [db |-> written.db, raised |-> FALSE, instance_id |-> instance.id,
             note |-> ""]

update_entity_instance_attributes(db, instance_id, attribute_values, updated_by, now) ==
    LET instance == GetInstance(db, instance_id)
        stamped == [instance EXCEPT !.updated_by = OrSystem(updated_by),
                                    !.updated_at = now]
        session == [db EXCEPT !.instances = (@ \ {instance}) \cup {stamped}]
        written == SetEach(session, instance_id, attribute_values, FALSE)
    IN IF instance = NULL
       THEN [db |-> db, raised |-> FALSE, found |-> FALSE, note |-> ""]
       ELSE IF written.raised
       THEN [db |-> Rollback(db, written.db), raised |-> TRUE, found |-> TRUE,
             note |-> Partial(db, written.db)]
       ELSE [db |-> written.db, raised |-> FALSE, found |-> TRUE, note |-> ""]

(***************************************************************************)
(* Actions                                                                 *)
(***************************************************************************)
Commit(db) ==
    /\ entity_instances' = db.instances
    /\ text_values' = db.text
    /\ numeric_values' = db.numeric
    /\ datetime_values' = db.datetime
    /\ boolean_values' = db.boolean
    /\ audit_log' = db.audit
    /\ attribute_definitions' = db.attrs
    /\ form_field_configurations' = db.fields

\* the request served, its outcome and a note on the path it took
Served(op, status, note) == last' = [op |-> op, status |-> status, note |-> note]


\* the values a caller of the models.py functions passes
EavValues == {NULL, Str("7.5"), Datetime(1)}

InitTables ==
    /\ attribute_definitions = SeedAttributes
    /\ entity_instances = {}
    /\ text_values = {}
    /\ numeric_values = {}
    /\ datetime_values = {}
    /\ boolean_values = {}
    /\ audit_log = {}
    /\ form_field_configurations = SeedFormFields
    /\ sessions = [s \in SessionIds |-> IdleSession]
    /\ clock = 0
    /\ last = [op |-> "none", status |-> "none", note |-> ""]

Init ==
    /\ InitTables
    /\ user_roles = {}
    /\ entity_permissions = {}

\* a caller sets one attribute of an instance and commits
SetAttributeValue(instance_id, code, value) ==
    /\ GetInstance(DB, instance_id) # NULL
    /\ LET r == set_attribute_value(DB, instance_id, code, value)
       IN /\ Commit(IF r.raised THEN Rollback(DB, r.db) ELSE r.db)
          /\ Served("set_attribute_value",
                    IF r.raised THEN "raised" ELSE "ok", r.branch)
    /\ UNCHANGED <<clock, permVars, sessions>>

CreateInstance(entity_type_id, attribute_values, created_by) ==
    /\ clock < MaxTime
    /\ Cardinality(entity_instances) < MaxInstances
    /\ LET r == create_entity_instance_with_attributes(
                    DB, entity_type_id, attribute_values, created_by, clock + 1)
       IN /\ Commit(r.db)
          /\ Served("create", IF r.raised THEN "raised" ELSE "ok", r.note)
    /\ clock' = clock + 1
    /\ UNCHANGED <<permVars, sessions>>

UpdateInstance(instance_id, attribute_values, updated_by) ==
    /\ clock < MaxTime
    /\ LET r == update_entity_instance_attributes(
                    DB, instance_id, attribute_values, updated_by, clock + 1)
       IN /\ Commit(r.db)
          /\ Served("update", IF ~r.found THEN "notfound"
                              ELSE IF r.raised THEN "raised" ELSE "ok", r.note)
    /\ clock' = clock + 1
    /\ UNCHANGED <<permVars, sessions>>

\* the dictionaries a caller of the models.py functions passes, per entity type
EavDicts == [et \in EntityTypeIds |-> Dicts(et, EavValues)]

EntityTypeOf(instance_id) == GetInstance(DB, instance_id).entity_type_id

\* created_by is left out by the caller ('system'), updated_by is given
NextEav ==
    \/ \E i \in InstanceIds, v \in EavValues :
          /\ GetInstance(DB, i) # NULL
          /\ \E k \in 1..Len(RequestCodes(EntityTypeOf(i))) :
                SetAttributeValue(i, RequestCodes(EntityTypeOf(i))[k], v)
    \/ \E et \in EntityTypeIds :
          \E d \in EavDicts[et] : CreateInstance(et, d, NULL)
    \/ \E i \in InstanceIds :
          /\ GetInstance(DB, i) # NULL
          /\ \E d \in EavDicts[EntityTypeOf(i)] :
                UpdateInstance(i, d, Str("alice"))

\* the models.py functions called directly
SpecEav == Init /\ [][NextEav]_vars

\* the dictionaries without None values
FilledDicts == [et \in EntityTypeIds |-> Dicts(et, EavValues \ {NULL})]

NextUpdate ==
    \/ \E et \in EntityTypeIds :
          \E d \in FilledDicts[et] : CreateInstance(et, d, NULL)
    \/ \E i \in InstanceIds :
          /\ GetInstance(DB, i) # NULL
          /\ \E d \in EavDicts[EntityTypeOf(i)] :
                UpdateInstance(i, d, Str("alice"))

\* create_entity_instance_with_attributes and
\* update_entity_instance_attributes called directly
SpecUpdate == Init /\ [][NextUpdate]_vars

(***************************************************************************)
(* Permission engine                                                       *)
(***************************************************************************)
NoPermissions ==
    [can_read |-> FALSE, can_create |-> FALSE, can_update |-> FALSE,
     can_delete |-> FALSE]

Flags == {"can_read", "can_create", "can_update", "can_delete"}

\* [ur.role_id for ur in user.user_roles]
UserRoleIds(roles, user_id) == {ur.role_id : ur \in {x \in roles : x.user_id = user_id}}

\* EntityPermission.query.filter(role_id.in_(...), entity_type_id == ...).all()
PermissionsFor(perms, role_ids, entity_type_id) ==
    {p \in perms : p.role_id \in role_ids /\ p.entity_type_id = entity_type_id}

\* the rows of a query result one after the other, by primary key
FirstOf(rows) ==
    CHOOSE p \in rows : \A q \in rows :
        <<p.role_id, p.entity_type_id>> = <<q.role_id, q.entity_type_id>>
        \/ p.role_id < q.role_id
        \/ (p.role_id = q.role_id /\ p.entity_type_id < q.entity_type_id)

RECURSIVE AggregateAll(_, _)
\* a variant that keeps a flag only while every row grants it
AggregateAll(permissions, result) ==
    IF permissions = {} THEN result
    ELSE LET perm == FirstOf(permissions)
         IN AggregateAll(permissions \ {perm},
                [f \in Flags |-> result[f] /\ perm[f]])

RECURSIVE Aggregate(_, _)
\* for perm in permissions: if perm.can_read: result['can_read'] = True ...
Aggregate(permissions, result) ==
    IF permissions = {} THEN result
    ELSE LET perm == FirstOf(permissions)
         IN Aggregate(permissions \ {perm},
                [f \in Flags |-> IF perm[f] THEN TRUE ELSE result[f]])

\* a variant that aggregates with AND over the rows found
get_user_permissions_all_rows(roles, perms, user_id, entity_type_id) ==
    IF user_id \notin DOMAIN Users THEN NoPermissions
    ELSE LET found == PermissionsFor(perms, UserRoleIds(roles, user_id), entity_type_id)
         IN IF found = {} THEN NoPermissions
            ELSE AggregateAll(found, [f \in Flags |-> TRUE])

get_user_permissions(roles, perms, user_id, entity_type_id) ==
    IF user_id \notin DOMAIN Users THEN NoPermissions
    ELSE Aggregate(PermissionsFor(perms, UserRoleIds(roles, user_id), entity_type_id),
                   NoPermissions)

OperationFlag(operation) ==
    CASE operation = "READ" -> "can_read"
      [] operation = "CREATE" -> "can_create"
      [] operation = "UPDATE" -> "can_update"
      [] operation = "DELETE" -> "can_delete"
      [] OTHER -> "none"

\* a variant of the loop that answers from the first row alone
AnyGrantsFirstRow(permissions, operation) ==
    IF permissions = {} THEN FALSE
    ELSE OperationFlag(operation) \in Flags
         /\ FirstOf(permissions)[OperationFlag(operation)]

RECURSIVE AnyGrants(_, _)
\* for permission in permissions: if operation == ... and permission.can_...:
\*     return True
AnyGrants(permissions, operation) ==
    IF permissions = {} THEN FALSE
    ELSE LET permission == FirstOf(permissions)
         IN IF OperationFlag(operation) \in Flags /\ permission[OperationFlag(operation)]
            THEN TRUE
            ELSE AnyGrants(permissions \ {permission}, operation)

\* a variant that lets any granted flag stand for the operation asked
check_user_permissions_any_flag(roles, perms, user_id, entity_type_id, operation) ==
    IF user_id \notin DOMAIN Users THEN FALSE
    ELSE \E p \in PermissionsFor(perms, UserRoleIds(roles, user_id), entity_type_id) :
            \E f \in Flags : p[f]

check_user_permissions(roles, perms, user_id, entity_type_id, operation) ==
    IF user_id \notin DOMAIN Users THEN FALSE
    ELSE AnyGrants(PermissionsFor(perms, UserRoleIds(roles, user_id), entity_type_id),
                   operation)

\* the entity_types rows: entity type 1 belongs to module 1, entity type 2 to
\* module 2, and module 3 has no entity type
SeedEntityTypes ==
    {[id |-> et, module_id |-> et, is_active |-> TRUE] : et \in EntityTypeIds}

ModuleIds == {1, 2, 3}

\* the entity_types tables a designer can have set up: each entity type in
\* module 1 or module 2, active or not
EntityTypeTables ==
    {{[id |-> et, module_id |-> m[et], is_active |-> a[et]] : et \in EntityTypeIds} : m \in [EntityTypeIds -> {1, 2}], a \in [EntityTypeIds -> BOOLEAN]}

\* a variant that also counts the entity types that are not active
can_access_module_any_type(entity_types, roles, perms, user_id, module_id) ==
    /\ user_id \in DOMAIN Users
    /\ \E p \in perms : /\ p.role_id \in UserRoleIds(roles, user_id)
                        /\ p.entity_type_id \in {et.id : et \in {x \in entity_types : x.module_id = module_id}}
                        /\ p.can_read

can_access_module(entity_types, roles, perms, user_id, module_id) ==
    LET user_role_ids == UserRoleIds(roles, user_id)
        entity_type_ids ==
            {et.id : et \in {x \in entity_types : x.module_id = module_id /\ x.is_active}}
    IN IF user_id \notin DOMAIN Users THEN FALSE
       ELSE IF entity_type_ids = {} THEN FALSE
       ELSE \E p \in perms : /\ p.role_id \in user_role_ids
                             /\ p.entity_type_id \in entity_type_ids
                             /\ p.can_read

\* the ids of the entity types returned, in order_index order
get_accessible_entity_types_for_module(entity_types, roles, perms, user_id, module_id) ==
    LET listed == ById({x \in entity_types : x.module_id = module_id /\ x.is_active})
        accessible_ids ==
            {p.entity_type_id : p \in {q \in perms : /\ q.role_id \in UserRoleIds(roles, user_id)
                                                      /\ q.can_read}}
    IN IF user_id \notin DOMAIN Users THEN <<>>
       ELSE SelectSeq([k \in 1..Len(listed) |-> listed[k].id],
                      LAMBDA id : id \in accessible_ids)

Permission(role_id, entity_type_id, flags) ==
    [role_id |-> role_id, entity_type_id |-> entity_type_id,
     can_read |-> flags.can_read, can_create |-> flags.can_create,
     can_update |-> flags.can_update, can_delete |-> flags.can_delete]

FlagSet(r, c, u, d) ==
    [can_read |-> r, can_create |-> c, can_update |-> u, can_delete |-> d]

\* access_control.update_permission: find or create the row, set its flags
update_permission(role_id, entity_type_id, data) ==
    /\ entity_permissions' =
          {p \in entity_permissions :
              ~(p.role_id = role_id /\ p.entity_type_id = entity_type_id)}
          \cup {Permission(role_id, entity_type_id, data)}
    /\ Served("update_permission", "ok", "")
    /\ UNCHANGED <<schemaVars, dataVars, user_roles, sessions, clock>>

\* access_control.assign_role
assign_role(user_id, role_id) ==
    /\ IF \E ur \in user_roles : ur.user_id = user_id /\ ur.role_id = role_id
       THEN /\ Served("assign_role", "already", "")
            /\ UNCHANGED user_roles
       ELSE /\ user_roles' = user_roles \cup {[user_id |-> user_id, role_id |-> role_id]}
            /\ Served("assign_role", "ok", "")
    /\ UNCHANGED <<schemaVars, dataVars, entity_permissions, sessions, clock>>

\* a variant of remove_role that answers without deleting the row
remove_role_keeps_row(user_id, role_id) ==
    /\ IF \E ur \in user_roles : ur.user_id = user_id /\ ur.role_id = role_id
       THEN Served("remove_role", "ok", "")
       ELSE Served("remove_role", "notfound", "")
    /\ UNCHANGED user_roles
    /\ UNCHANGED <<schemaVars, dataVars, entity_permissions, sessions, clock>>

\* access_control.remove_role
remove_role(user_id, role_id) ==
    /\ IF \E ur \in user_roles : ur.user_id = user_id /\ ur.role_id = role_id
       THEN /\ user_roles' = user_roles \ {[user_id |-> user_id, role_id |-> role_id]}
            /\ Served("remove_role", "ok", "")
       ELSE /\ Served("remove_role", "notfound", "")
            /\ UNCHANGED user_roles
    /\ UNCHANGED <<schemaVars, dataVars, entity_permissions, sessions, clock>>

\* the flag sets an administrator posts
PermissionInputs ==
    { FlagSet(FALSE, FALSE, FALSE, FALSE), FlagSet(TRUE, FALSE, FALSE, FALSE),
      FlagSet(FALSE, TRUE, TRUE, FALSE), FlagSet(FALSE, FALSE, FALSE, TRUE) }

\* the users an administrator assigns roles to: alice and the id of no user
\* (SQLite does not enforce the foreign key of user_roles)
AssignedUserIds == {1, 3}

NextPerm ==
    \/ \E r \in RoleIds, et \in EntityTypeIds, data \in PermissionInputs :
          update_permission(r, et, data)
    \/ \E u \in AssignedUserIds, r \in RoleIds : assign_role(u, r)
    \/ \E u \in AssignedUserIds, r \in RoleIds : remove_role(u, r)

\* the access-control routes
SpecPerm == Init /\ [][NextPerm]_vars

\* the flag sets of an administrator who moves a role between read-only and
\* write-only
ToggleInputs ==
    { FlagSet(TRUE, FALSE, FALSE, FALSE), FlagSet(FALSE, TRUE, TRUE, FALSE) }

NextToggle ==
    \/ \E r \in RoleIds, et \in EntityTypeIds, data \in ToggleInputs :
          update_permission(r, et, data)
    \/ \E u \in AssignedUserIds, r \in RoleIds : assign_role(u, r)
    \/ \E u \in AssignedUserIds, r \in RoleIds : remove_role(u, r)

\* the access-control routes, with two flag sets posted
SpecToggle == Init /\ [][NextToggle]_vars

(***************************************************************************)
(* Forms: process_form_data                                                *)
(***************************************************************************)
RECURSIVE ByOrderIndex(_)
\* .order_by(FormFieldConfiguration.order_index).all()
ByOrderIndex(rows) ==
    IF rows = {} THEN <<>>
    ELSE LET f == CHOOSE x \in rows : \A y \in rows : x.order_index <= y.order_index
         IN <<f>> \o ByOrderIndex(rows \ {f})

AttributeById(db, id) == CHOOSE a \in db.attrs : a.id = id

\* FormFieldConfiguration.query.filter_by(form_definition_id=..., is_visible=True)
\*     .join(AttributeDefinition, ...).order_by(order_index).all()
FormFields(db, entity_type_id, form_type) ==
    ByOrderIndex({f \in db.fields :
                    /\ f.form_type = form_type
                    /\ f.entity_type_id = entity_type_id
                    /\ f.is_visible
                    /\ \E a \in db.attrs : a.id = f.attribute_definition_id})

\* the texts that int() parses
IntLiterals == {<<"12", 1200>>}

\* the words process_form_data reads as true
TrueWords == {"true", "1", "yes", "on"}

\* value.strip(), value.lower() on the texts a browser posts
py_strip(s) == IF s = " on " THEN "on" ELSE IF s = " " THEN "" ELSE s
py_lower(s) == IF s = "On" THEN "on" ELSE s

\* the conversion of one non-empty field value; ok is FALSE on ValueError
ConvertField(data_type, value) ==
    CASE data_type \in {"INT", "BIGINT"} ->
            IF \E l \in IntLiterals : l[1] = value
            THEN [ok |-> TRUE, v |-> Float((CHOOSE l \in IntLiterals : l[1] = value)[2])]
            ELSE [ok |-> FALSE, v |-> NULL]
      [] data_type = "DECIMAL" -> py_float(Str(value))
      [] data_type = "BOOLEAN" ->
            [ok |-> TRUE, v |-> Bool(py_lower(value) \in TrueWords)]
      [] data_type \in {"DATE", "DATETIME"} ->
            IF \E l \in DateLiterals : l[1] = value
            THEN [ok |-> TRUE, v |-> Datetime((CHOOSE l \in DateLiterals : l[1] = value)[2])]
            ELSE [ok |-> FALSE, v |-> NULL]
      [] OTHER -> [ok |-> TRUE, v |-> Str(py_strip(value))]

\* one turn of the loop of process_form_data: the entry the field adds, if
\* any, and whether the ValueError of a required field leaves the function
ProcessField(db, field, request_form) ==
    LET attr == AttributeById(db, field.attribute_definition_id)
        value == IF attr.code \in DOMAIN request_form
                 THEN request_form[attr.code] ELSE ""
        required == field.is_required \/ attr.is_required
        c == ConvertField(attr.data_type, value)
    IN IF ~field.is_visible THEN [raised |-> FALSE, entries |-> <<>>]
       ELSE IF value = "" \/ py_strip(value) = ""
       THEN [raised |-> FALSE,
             entries |-> IF required THEN <<>> ELSE <<Entry(attr.code, NULL)>>]
       ELSE IF c.ok THEN [raised |-> FALSE, entries |-> <<Entry(attr.code, c.v)>>]
       ELSE IF ~required THEN [raised |-> FALSE, entries |-> <<Entry(attr.code, NULL)>>]
       ELSE [raised |-> TRUE, entries |-> <<>>]

RECURSIVE ProcessFields(_, _, _, _)
\* the loop of process_form_data over form_fields, from the values so far
ProcessFields(db, form_fields, request_form, attribute_values) ==
    IF form_fields = <<>> THEN [raised |-> FALSE, values |-> attribute_values]
    ELSE LET r == ProcessField(db, Head(form_fields), request_form)
         IN IF r.raised THEN [raised |-> TRUE, values |-> attribute_values]
            ELSE ProcessFields(db, Tail(form_fields), request_form,
                               attribute_values \o r.entries)

process_form_data(db, form_fields, request_form) ==
    ProcessFields(db, form_fields, request_form, <<>>)

(***************************************************************************)
(* Audit log                                                               *)
(***************************************************************************)
AllSerializable(values) == \A k \in 1..Len(values) : JsonSerializable(values[k].value)

\* a variant that keeps one row per instance: the new row takes the place of
\* the instance's earlier rows
log_audit_entry_replaces(db, entity_type_id, entity_instance_id, operation, old_values, new_values, user_id) ==
    IF AllSerializable(old_values) /\ AllSerializable(new_values)
    THEN [db EXCEPT !.audit = {a \in @ : a.entity_instance_id # entity_instance_id}
                                \cup {[id |-> NextId(db.audit),
                                       entity_type_id |-> entity_type_id,
                                       entity_instance_id |-> entity_instance_id,
                                       operation |-> operation,
                                       user_id |-> user_id]}]
    ELSE db

\* log_audit_entry: add the row and commit; an exception (a value json.dumps
\* refuses) is caught, the session rolled back and nothing is raised
log_audit_entry(db, entity_type_id, entity_instance_id, operation, old_values, new_values, user_id) ==
    IF AllSerializable(old_values) /\ AllSerializable(new_values)
    THEN [db EXCEPT !.audit = @ \cup {[id |-> NextId(db.audit),
                                       entity_type_id |-> entity_type_id,
                                       entity_instance_id |-> entity_instance_id,
                                       operation |-> operation,
                                       user_id |-> user_id]}]
    ELSE db

(***************************************************************************)
(* Write handlers of app.py                                                *)
(***************************************************************************)
Response(db, status, note) == [db |-> db, status |-> status, note |-> note]

Username(user_id) == Str(Users[user_id])

\* a variant in which the exception of the audit entry is not caught and ends
\* the create with the error flash
CreateOutcomeAuditRaises(c, entity_type_id, new_values, user_id) ==
    IF c.raised THEN Response(c.db, "error", "create")
    ELSE IF ~AllSerializable(new_values) THEN Response(c.db, "error", "audit")
    ELSE Response(log_audit_entry(c.db, entity_type_id, c.instance_id, "CREATE",
                                  <<>>, new_values, user_id),
                  "ok", "")

\* the tail of entity_create: the audit entry and the redirect, or the flash
\* of the exception create_entity_instance_with_attributes re-raised
CreateOutcome(c, entity_type_id, new_values, user_id) ==
    IF c.raised THEN Response(c.db, "error", "create")
    ELSE Response(log_audit_entry(c.db, entity_type_id, c.instance_id, "CREATE",
                                  <<>>, new_values, user_id),
                  "ok", "")

\* the try block of entity_create, from the result p of process_form_data
CreateFromForm(db, user_id, entity_type_id, p, now) ==
    IF p.raised THEN Response(db, "error", "validation")
    ELSE CreateOutcome(create_entity_instance_with_attributes(
                           db, entity_type_id, p.values, Username(user_id), now),
                       entity_type_id, p.values, user_id)

entity_create(db, roles, perms, user_id, entity_type_id, request_form, now) ==
    IF ~check_user_permissions(roles, perms, user_id, entity_type_id, "CREATE")
    THEN Response(db, "denied", "")
    ELSE CreateFromForm(db, user_id, entity_type_id,
                        process_form_data(db, FormFields(db, entity_type_id, "CREATE"),
                                          request_form),
                        now)

RECURSIVE OldValues(_, _, _)
\* old_values[code] = instance.get_attribute_value(code) for each form field
OldValues(db, instance_id, form_fields) ==
    IF form_fields = <<>> THEN <<>>
    ELSE LET code == AttributeById(db, Head(form_fields).attribute_definition_id).code
         IN <<Entry(code, get_attribute_value(db, instance_id, code))>>
            \o OldValues(db, instance_id, Tail(form_fields))

\* the tail of entity_edit: the audit entry and the redirect, or the flash of
\* the exception update_entity_instance_attributes re-raised
EditOutcome(u, entity_type_id, instance_id, old_values, new_values, user_id) ==
    IF u.raised THEN Response(u.db, "error", "update")
    ELSE Response(log_audit_entry(u.db, entity_type_id, instance_id, "UPDATE",
                                  old_values, new_values, user_id),
                  "ok", "")

\* the try block of entity_edit, from the form fields of the edit form
EditFromForm(db, user_id, entity_type_id, instance_id, old_values, p, now) ==
    IF p.raised THEN Response(db, "error", "validation")
    ELSE EditOutcome(update_entity_instance_attributes(
                         db, instance_id, p.values, Username(user_id), now),
                     entity_type_id, instance_id, old_values, p.values, user_id)

EditWithFields(db, user_id, entity_type_id, instance_id, form_fields, request_form, now) ==
    EditFromForm(db, user_id, entity_type_id, instance_id,
                 OldValues(db, instance_id, form_fields),
                 process_form_data(db, form_fields, request_form), now)

entity_edit(db, roles, perms, user_id, entity_type_id, instance_id, request_form, now) ==
    IF GetInstance(db, instance_id) = NULL THEN Response(db, "notfound", "")
    ELSE IF ~check_user_permissions(roles, perms, user_id, entity_type_id, "UPDATE")
    THEN Response(db, "denied", "")
    ELSE EditWithFields(db, user_id, entity_type_id, instance_id,
                        FormFields(db, entity_type_id, "EDIT"), request_form, now)

\* a variant that also removes the value rows of the instance
SoftDeleteRemovesRows(db, user_id, entity_type_id, instance, now) ==
    IF instance.entity_type_id # entity_type_id THEN Response(db, "invalid", "")
    ELSE Response(
           [db EXCEPT !.instances =
                        (@ \ {instance}) \cup {[instance EXCEPT !.is_active = FALSE,
                                                               !.updated_by = Username(user_id),
                                                               !.updated_at = now]},
                      !.text = {r \in @ : r.entity_instance_id # instance.id},
                      !.numeric = {r \in @ : r.entity_instance_id # instance.id},
                      !.datetime = {r \in @ : r.entity_instance_id # instance.id},
                      !.boolean = {r \in @ : r.entity_instance_id # instance.id}],
           "ok", "")

\* the try block of entity_delete on the instance row found
SoftDelete(db, user_id, entity_type_id, instance, now) ==
    IF instance.entity_type_id # entity_type_id THEN Response(db, "invalid", "")
    ELSE Response(
           [log_audit_entry(db, entity_type_id, instance.id, "DELETE",
                            <<Entry("instance_code", instance.instance_code),
                              Entry("workflow_status", NULL)>>,
                            <<>>, user_id)
              EXCEPT !.instances =
                  (@ \ {instance}) \cup {[instance EXCEPT !.is_active = FALSE,
                                                         !.updated_by = Username(user_id),
                                                         !.updated_at = now]}],
           "ok", "")

entity_delete(db, roles, perms, user_id, entity_type_id, instance_id, now) ==
    IF ~check_user_permissions(roles, perms, user_id, entity_type_id, "DELETE")
    THEN Response(db, "denied", "")
    ELSE IF GetInstance(db, instance_id) = NULL THEN Response(db, "error", "notfound")
    ELSE SoftDelete(db, user_id, entity_type_id, GetInstance(db, instance_id), now)

(***************************************************************************)
(* Read paths                                                              *)
(***************************************************************************)
\* FormDefinition.records_per_page, and the per_page default of the search API
records_per_page == 10
search_per_page == 10

Min(a, b) == IF a < b THEN a ELSE b

\* query.paginate(page=page, per_page=per_page, error_out=False).items
Paginate(rows, page, per_page) ==
    SubSeq(rows, (page - 1) * per_page + 1, Min(page * per_page, Len(rows)))

\* a variant of the query without the is_active filter
InstancesOfType(db, entity_type_id) ==
    ById({i \in db.instances : i.entity_type_id = entity_type_id})

\* EntityInstance.query.filter_by(entity_type_id=..., is_active=True)
ActiveInstances(db, entity_type_id) ==
    ById({i \in db.instances : i.entity_type_id = entity_type_id /\ i.is_active})

RECURSIVE AttributeValues(_, _, _)
\* instance_data['attributes'][code] = instance.get_attribute_value(code)
AttributeValues(db, instance_id, codes) ==
    IF codes = <<>> THEN <<>>
    ELSE <<Entry(Head(codes), get_attribute_value(db, instance_id, Head(codes)))>>
         \o AttributeValues(db, instance_id, Tail(codes))

InstanceData(db, instance, codes) ==
    [id |-> instance.id,
     instance_code |-> instance.instance_code,
     workflow_status |-> NULL,
     created_at |-> instance.created_at,
     updated_at |-> instance.updated_at,
     attributes |-> AttributeValues(db, instance.id, codes)]

\* the codes of the rows of a query over attribute definitions or form fields
CodesOf(db, fields) ==
    [k \in 1..Len(fields) |-> AttributeById(db, fields[k].attribute_definition_id).code]

AttributeCodesOf(db, entity_type_id) ==
    LET attrs == ById({a \in db.attrs : a.entity_type_id = entity_type_id /\ a.is_active})
    IN [k \in 1..Len(attrs) |-> attrs[k].code]

get_entity_instances_with_attributes(db, entity_type_id, page, per_page) ==
    LET items == Paginate(ActiveInstances(db, entity_type_id), page, per_page)
    IN [k \in 1..Len(items) |->
            InstanceData(db, items[k], AttributeCodesOf(db, entity_type_id))]

Page(status, body) == [status |-> status, body |-> body]

entity_list(db, roles, perms, user_id, entity_type_id, page) ==
    IF ~check_user_permissions(roles, perms, user_id, entity_type_id, "READ")
    THEN Page("denied", <<>>)
    ELSE Page("ok", get_entity_instances_with_attributes(
                        db, entity_type_id, page, records_per_page))

entity_detail(db, roles, perms, user_id, entity_type_id, instance_id) ==
    LET instance == GetInstance(db, instance_id)
        form_fields == FormFields(db, entity_type_id, "DETAIL")
    IN IF instance = NULL THEN Page("notfound", <<>>)
       ELSE IF ~check_user_permissions(roles, perms, user_id, entity_type_id, "READ")
       THEN Page("denied", <<>>)
       ELSE Page("ok", <<InstanceData(db, instance, CodesOf(db, form_fields))>>)

\* the order of str(label) among the labels the stores can hold
LabelOrder ==
    <<"", "12.000000", "2024-01-01", "2024-01-01 00:00:00", "7.5", "7.500000",
      "?", "False", "True", "on">>

LabelRank(v) == CHOOSE k \in 1..Len(LabelOrder) : LabelOrder[k] = py_str(v).s

RECURSIVE InsertByLabel(_, _)
\* the place of an option among sorted ones; equal labels keep their order
InsertByLabel(sorted, option) ==
    IF sorted = <<>> THEN <<option>>
    ELSE IF LabelRank(option.label) < LabelRank(Head(sorted).label)
    THEN <<option>> \o sorted
    ELSE <<Head(sorted)>> \o InsertByLabel(Tail(sorted), option)

\* a variant that leaves the options in the order of the instances
KeepInstanceOrder(options, sorted) == sorted \o options

RECURSIVE SortByLabel(_, _)
\* options.sort(key=lambda x: str(x['label']))
SortByLabel(options, sorted) ==
    IF options = <<>> THEN sorted
    ELSE SortByLabel(Tail(options), InsertByLabel(sorted, Head(options)))

RECURSIVE CollectEveryOption(_, _, _, _, _, _)
\* a variant of the loop that never consults seen_values
CollectEveryOption(db, instances, source_code, display_code, unique_only, options) ==
    IF instances = <<>> THEN options
    ELSE LET instance == Head(instances)
             source_value == get_attribute_value(db, instance.id, source_code)
             display_value == get_attribute_value(db, instance.id, display_code)
             option == [value |-> source_value,
                        label |-> IF display_value # NULL /\ py_bool(display_value).n = 1
                                  THEN display_value ELSE source_value,
                        instance_id |-> instance.id]
         IN CollectEveryOption(db, Tail(instances), source_code, display_code, unique_only,
                               IF source_value = NULL THEN options
                               ELSE Append(options, option))

RECURSIVE CollectOptions(_, _, _, _, _, _)
\* the loop of get_dropdown_options over the active instances
CollectOptions(db, instances, source_code, display_code, unique_only, options) ==
    IF instances = <<>> THEN options
    ELSE LET instance == Head(instances)
             source_value == get_attribute_value(db, instance.id, source_code)
             display_value == get_attribute_value(db, instance.id, display_code)
             seen == {options[k].value : k \in 1..Len(options)}
             option == [value |-> source_value,
                        label |-> IF display_value # NULL /\ py_bool(display_value).n = 1
                                  THEN display_value ELSE source_value,
                        instance_id |-> instance.id]
         IN IF source_value = NULL \/ (unique_only /\ source_value \in seen)
            THEN CollectOptions(db, Tail(instances), source_code, display_code,
                                unique_only, options)
            ELSE CollectOptions(db, Tail(instances), source_code, display_code,
                                unique_only, Append(options, option))

get_dropdown_options(db, entity_type_id, source_attribute_code, display_attribute_code, unique_only) ==
    LET source_attr == FindAttribute(db, entity_type_id, source_attribute_code)
        found == FindAttribute(db, entity_type_id, display_attribute_code)
        display_attr == IF display_attribute_code # ""
                           /\ display_attribute_code # source_attribute_code
                           /\ found # NULL
                        THEN found ELSE source_attr
    IN IF entity_type_id \notin EntityTypeIds THEN <<>>
       ELSE IF source_attr = NULL THEN <<>>
       ELSE SortByLabel(CollectOptions(db, ActiveInstances(db, entity_type_id),
                                       source_attribute_code, display_attr.code,
                                       unique_only, <<>>),
                        <<>>)

\* field.dropdown_source_attribute, field.dropdown_display_attribute: the
\* many-to-one relationship loads the row of the foreign key, None when the
\* key is NULL or no row has that id
Related(db, id) ==
    IF \E a \in db.attrs : a.id = id THEN AttributeById(db, id) ELSE NULL

\* the condition under which the form routes look up options for a field
HasDropdownWiring(field) ==
    /\ field.field_type \in {"SELECT", "MULTISELECT"}
    /\ field.dropdown_source_entity_id # 0
    /\ field.dropdown_source_attribute_id # 0

\* .code of a relationship that loaded None raises AttributeError
DropdownRaises(db, field) ==
    /\ HasDropdownWiring(field)
    /\ Related(db, field.dropdown_source_attribute_id) = NULL

\* the options the loop of entity_create and entity_edit stores for one field
DropdownOptionsOf(db, field) ==
    LET source == Related(db, field.dropdown_source_attribute_id)
        display == Related(db, field.dropdown_display_attribute_id)
    IN get_dropdown_options(db, field.dropdown_source_entity_id, source.code,
                            IF display # NULL THEN display.code ELSE source.code,
                            field.show_unique_values_only)

\* dropdown_data = {} and the loop over form_fields that fills it, keyed by
\* the code of the field's own attribute
dropdown_data(db, form_fields) ==
    LET fields == {form_fields[i] : i \in DOMAIN form_fields}
        wired == {f \in fields : HasDropdownWiring(f)}
    IN IF \E f \in wired : DropdownRaises(db, f)
       THEN [raised |-> TRUE, data |-> <<>>]
       ELSE [raised |-> FALSE,
             data |-> [code \in {AttributeById(db, f.attribute_definition_id).code : f \in wired} |->
                         DropdownOptionsOf(db, CHOOSE f \in wired :
                             AttributeById(db, f.attribute_definition_id).code = code)]]

\* GET /entity/<entity_type_id>/create: the permission check, the form
\* fields, the dropdown data, then the template; an exception of the loop is
\* outside every try block and ends the request with a server error
entity_create_form(db, roles, perms, user_id, entity_type_id) ==
    IF ~check_user_permissions(roles, perms, user_id, entity_type_id, "CREATE")
    THEN [status |-> "denied", dropdown_data |-> <<>>]
    ELSE LET d == dropdown_data(db, FormFields(db, entity_type_id, "CREATE"))
         IN IF d.raised THEN [status |-> "error", dropdown_data |-> <<>>]
            ELSE [status |-> "ok", dropdown_data |-> d.data]

\* GET /entity/<entity_type_id>/<instance_id>/edit
entity_edit_form(db, roles, perms, user_id, entity_type_id, instance_id) ==
    IF ~\E i \in db.instances : i.id = instance_id
    THEN [status |-> "notfound", dropdown_data |-> <<>>]
    ELSE IF ~check_user_permissions(roles, perms, user_id, entity_type_id, "UPDATE")
    THEN [status |-> "denied", dropdown_data |-> <<>>]
    ELSE LET d == dropdown_data(db, FormFields(db, entity_type_id, "EDIT"))
         IN IF d.raised THEN [status |-> "error", dropdown_data |-> <<>>]
            ELSE [status |-> "ok", dropdown_data |-> d.data]

\* no permission is consulted: the route is @login_required only
api_dropdown_options(db, roles, perms, user_id, entity_type_id, attribute_code, display_attribute, unique_only) ==
    Page("ok", get_dropdown_options(db, entity_type_id, attribute_code,
                                    display_attribute, unique_only))

\* instance_code.ilike('%q%'): NULL matches no pattern
CodeMatches(instance_code, search_term) ==
    instance_code # NULL /\ instance_code.s = search_term

\* no permission is consulted: the route is @login_required only
api_entity_search(db, roles, perms, user_id, entity_type_id, search_term, page) ==
    LET all == ActiveInstances(db, entity_type_id)
        matching == IF search_term = "" THEN all
                    ELSE SelectSeq(all, LAMBDA i : CodeMatches(i.instance_code, search_term))
        items == Paginate(matching, page, search_per_page)
    IN Page("ok", [k \in 1..Len(items) |->
                      [id |-> items[k].id,
                       instance_code |-> items[k].instance_code,
                       workflow_status |-> NULL,
                       created_at |-> items[k].created_at]])

(***************************************************************************)
(* The routes of app.py as requests of a logged-in user                    *)
(***************************************************************************)
\* the texts a browser posts for a field
RawInputs == {"", "on", "7.5", "2024-01-01"}

\* request.form of a form of an entity type: a text for each attr_<code>
RequestForms ==
    [et \in EntityTypeIds |->
        [{a.code : a \in {x \in SeedAttributes : x.entity_type_id = et}} -> RawInputs]]

\* the forms the browsers post: every field filled with the same text, or
\* only the NAME field filled
PostedForms ==
    [et \in EntityTypeIds |->
        {f \in RequestForms[et] :
            \/ \A c \in DOMAIN f : f[c] = f["NAME"]
            \/ \A c \in DOMAIN f : c # "NAME" => f[c] = ""}]

AllFlags == FlagSet(TRUE, TRUE, TRUE, TRUE)

\* the entity_permissions tables the administrator has set up: role 1 manages
\* entity type 1, role 2 manages entity type 2, and role 1 may or may not
\* have a read-only row on entity type 2
SeedPermissions ==
    { {Permission(1, 1, AllFlags), Permission(2, 2, AllFlags)},
      {Permission(1, 1, AllFlags), Permission(2, 2, AllFlags),
       Permission(1, 2, FlagSet(TRUE, FALSE, FALSE, FALSE))} }

InitApp ==
    /\ InitTables
    /\ user_roles = {[user_id |-> 1, role_id |-> 1], [user_id |-> 2, role_id |-> 2]}
    /\ entity_permissions \in SeedPermissions

\* datetime.utcnow() is read by the requests that write
Tick(status) == clock' = IF status = "ok" THEN clock + 1 ELSE clock

EntityCreate(user_id, entity_type_id, request_form) ==
    /\ clock < MaxTime
    /\ Cardinality(entity_instances) < MaxInstances
    /\ LET r == entity_create(DB, user_roles, entity_permissions, user_id,
                              entity_type_id, request_form, clock + 1)
       IN /\ Commit(r.db)
          /\ Served("entity_create", r.status, r.note)
          /\ Tick(r.status)
    /\ UNCHANGED <<permVars, sessions>>

EntityEdit(user_id, entity_type_id, instance_id, request_form) ==
    /\ clock < MaxTime
    /\ LET r == entity_edit(DB, user_roles, entity_permissions, user_id,
                            entity_type_id, instance_id, request_form, clock + 1)
       IN /\ Commit(r.db)
          /\ Served("entity_edit", r.status, r.note)
          /\ Tick(r.status)
    /\ UNCHANGED <<permVars, sessions>>

EntityDelete(user_id, entity_type_id, instance_id) ==
    /\ clock < MaxTime
    /\ LET r == entity_delete(DB, user_roles, entity_permissions, user_id,
                              entity_type_id, instance_id, clock + 1)
       IN /\ Commit(r.db)
          /\ Served("entity_delete", r.status, r.note)
          /\ Tick(r.status)
    /\ UNCHANGED <<permVars, sessions>>

Pages == {1, 2}

EntityList(user_id, entity_type_id, page) ==
    /\ Served("entity_list",
              entity_list(DB, user_roles, entity_permissions, user_id,
                          entity_type_id, page).status, "")
    /\ UNCHANGED <<schemaVars, dataVars, permVars, sessions, clock>>

EntityDetail(user_id, entity_type_id, instance_id) ==
    /\ Served("entity_detail",
              entity_detail(DB, user_roles, entity_permissions, user_id,
                            entity_type_id, instance_id).status, "")
    /\ UNCHANGED <<schemaVars, dataVars, permVars, sessions, clock>>

ApiDropdownOptions(user_id, entity_type_id, attribute_code, display_attribute, unique_only) ==
    /\ Served("api_dropdown_options",
              api_dropdown_options(DB, user_roles, entity_permissions, user_id,
                                   entity_type_id, attribute_code,
                                   display_attribute, unique_only).status, "")
    /\ UNCHANGED <<schemaVars, dataVars, permVars, sessions, clock>>

SearchTerms == {"", "on"}

ApiEntitySearch(user_id, entity_type_id, search_term, page) ==
    /\ Served("api_entity_search",
              api_entity_search(DB, user_roles, entity_permissions, user_id,
                                entity_type_id, search_term, page).status, "")
    /\ UNCHANGED <<schemaVars, dataVars, permVars, sessions, clock>>

\* the attribute codes and display_attribute arguments (absent, or a code) a
\* browser asks the dropdown API for
DropdownCodes == {"NAME", "DONE"}
DisplayCodes == {"NAME"}

\* the routes that write
NextWrite ==
    \/ \E u \in DOMAIN Users, et \in EntityTypeIds :
          \E f \in PostedForms[et] : EntityCreate(u, et, f)
    \/ \E u \in DOMAIN Users, et \in EntityTypeIds, i \in InstanceIds :
          \E f \in PostedForms[et] : EntityEdit(u, et, i, f)
    \/ \E u \in DOMAIN Users, et \in EntityTypeIds, i \in InstanceIds :
          EntityDelete(u, et, i)

\* the create, edit and delete routes, under a seeded permission table
SpecWrite == InitApp /\ [][NextWrite]_vars

NextApp ==
    \/ NextWrite
    \/ \E u \in DOMAIN Users, et \in EntityTypeIds, page \in Pages :
          EntityList(u, et, page)
    \/ \E u \in DOMAIN Users, et \in EntityTypeIds, i \in InstanceIds :
          EntityDetail(u, et, i)
    \/ \E u \in DOMAIN Users, et \in EntityTypeIds, code \in DropdownCodes,
          display \in DisplayCodes, unique_only \in BOOLEAN :
          ApiDropdownOptions(u, et, code, display, unique_only)
    \/ \E u \in DOMAIN Users, et \in EntityTypeIds, q \in SearchTerms :
          ApiEntitySearch(u, et, q, 1)

\* the entity routes and the two JSON APIs, under a seeded permission table
SpecApp == InitApp /\ [][NextApp]_vars

NextDropdown ==
    \/ \E u \in DOMAIN Users, et \in EntityTypeIds :
          \E f \in PostedForms[et] : EntityCreate(u, et, f)
    \/ \E u \in DOMAIN Users, et \in EntityTypeIds, i \in InstanceIds :
          EntityDelete(u, et, i)
    \/ \E u \in DOMAIN Users, et \in EntityTypeIds, code \in DropdownCodes,
          display \in DisplayCodes, unique_only \in BOOLEAN :
          ApiDropdownOptions(u, et, code, display, unique_only)

\* the create and soft-delete routes and the dropdown API
SpecDropdown == InitApp /\ [][NextDropdown]_vars

NextListing ==
    \/ \E u \in DOMAIN Users, et \in EntityTypeIds :
          \E f \in PostedForms[et] : EntityCreate(u, et, f)
    \/ \E u \in DOMAIN Users, et \in EntityTypeIds, i \in InstanceIds :
          EntityDelete(u, et, i)
    \/ \E u \in DOMAIN Users, et \in EntityTypeIds, page \in Pages :
          EntityList(u, et, page)
    \/ \E u \in DOMAIN Users, et \in EntityTypeIds, code \in DropdownCodes,
          display \in DisplayCodes, unique_only \in BOOLEAN :
          ApiDropdownOptions(u, et, code, display, unique_only)
    \/ \E u \in DOMAIN Users, et \in EntityTypeIds, q \in SearchTerms :
          ApiEntitySearch(u, et, q, 1)

\* the create and soft-delete routes, the list page and the two JSON APIs
SpecListing == InitApp /\ [][NextListing]_vars

(***************************************************************************)
(* custom_admin: model_delete and bulk_action on the entity_instance model *)
(***************************************************************************)
\* a variant of session.delete that deletes the instance rows alone
DeleteInstanceRowsOnly(db, ids) ==
    [db EXCEPT !.instances = {i \in @ : i.id \notin ids}]

\* db.session.delete(obj) for each listed instance, then commit: the rows of
\* text_values, numeric_values, datetime_values and boolean_values go with
\* the instance (cascade='all, delete-orphan')
DeleteInstances(db, ids) ==
    [db EXCEPT !.instances = {i \in @ : i.id \notin ids},
               !.text = {r \in @ : r.entity_instance_id \notin ids},
               !.numeric = {r \in @ : r.entity_instance_id \notin ids},
               !.datetime = {r \in @ : r.entity_instance_id \notin ids},
               !.boolean = {r \in @ : r.entity_instance_id \notin ids}]

\* AdminUtils.get_relationship_count(instance, key): relationship.count()
get_relationship_count(db, instance_id, key) ==
    Cardinality({r \in db[key] : r.entity_instance_id = instance_id})

\* the ONETOMANY relationships of the instance that have rows
Dependencies(db, instance_id) ==
    {key \in StoreNames : get_relationship_count(db, instance_id, key) > 0}

model_delete(db, object_id) ==
    IF GetInstance(db, object_id) = NULL THEN Response(db, "notfound", "")
    ELSE IF Dependencies(db, object_id) # {} THEN Response(db, "refused", "dependencies")
    ELSE Response(DeleteInstances(db, {object_id}), "ok", "")

\* obj.is_active = flag for each object; updated_at has onupdate=utcnow
SetActive(db, ids, flag, now) ==
    [db EXCEPT !.instances =
        {IF i.id \in ids /\ i.is_active # flag
         THEN [i EXCEPT !.is_active = flag, !.updated_at = now] ELSE i : i \in @}]

bulk_action(db, action, object_ids, now) ==
    LET objects == {i.id : i \in {x \in db.instances : x.id \in object_ids}}
        valued == {r \in ValueRows(db) : r.entity_instance_id \in objects}
    IN IF action = "" \/ object_ids = {} THEN Response(db, "bad_request", "required")
       ELSE IF action = "delete"
       THEN Response(DeleteInstances(db, objects), "ok",
                     IF valued # {} THEN "values" ELSE "")
       ELSE IF action = "activate" THEN Response(SetActive(db, objects, TRUE, now), "ok", "")
       ELSE IF action = "deactivate" THEN Response(SetActive(db, objects, FALSE, now), "ok", "")
       ELSE Response(db, "bad_request", "unknown")

ModelDelete(object_id) ==
    /\ LET r == model_delete(DB, object_id)
       IN /\ Commit(r.db)
          /\ Served("model_delete", r.status, r.note)
    /\ UNCHANGED <<clock, permVars, sessions>>

\* the action names a client of the bulk API sends
BulkActions == {"", "delete", "activate", "deactivate", "archive"}

BulkAction(action, object_ids) ==
    /\ action # "delete" => clock < MaxTime
    /\ LET r == bulk_action(DB, action, object_ids, clock + 1)
       IN /\ Commit(r.db)
          /\ Served("bulk_action", r.status, r.note)
          /\ clock' = IF action # "delete" /\ r.db # DB THEN clock + 1 ELSE clock
    /\ UNCHANGED <<permVars, sessions>>

NextAdmin ==
    \/ \E u \in DOMAIN Users, et \in EntityTypeIds :
          \E f \in PostedForms[et] : EntityCreate(u, et, f)
    \/ \E u \in DOMAIN Users, et \in EntityTypeIds, i \in InstanceIds :
          EntityDelete(u, et, i)
    \/ \E i \in InstanceIds : ModelDelete(i)
    \/ \E action \in BulkActions, ids \in SUBSET InstanceIds : BulkAction(action, ids)

\* the create and soft-delete routes, and the administrator's delete and
\* bulk requests on instances
SpecAdmin == InitApp /\ [][NextAdmin]_vars

(***************************************************************************)
(* entity_designer: delete_attribute                                       *)
(***************************************************************************)
\* the count delete_attribute takes before deleting: text rows for VARCHAR
\* and TEXT, numeric rows for INT, BIGINT and DECIMAL, and no query for the
\* other data types
instance_count(db, attribute) ==
    IF attribute.data_type \in {"VARCHAR", "TEXT"}
    THEN Cardinality({r \in db.text : r.attribute_definition_id = attribute.id})
    ELSE IF attribute.data_type \in {"INT", "BIGINT", "DECIMAL"}
    THEN Cardinality({r \in db.numeric : r.attribute_definition_id = attribute.id})
    ELSE 0

Answer(db, status, count) == [db |-> db, status |-> status, count |-> count]

delete_attribute(db, entity_id, attr_id) ==
    LET found == {a \in db.attrs : a.id = attr_id /\ a.entity_type_id = entity_id}
        attribute == CHOOSE a \in found : TRUE
    IN IF found = {} THEN Answer(db, "notfound", 0)
       ELSE IF instance_count(db, attribute) > 0
       THEN Answer(db, "refused", instance_count(db, attribute))
       ELSE Answer([db EXCEPT !.fields = {f \in @ : f.attribute_definition_id # attr_id},
                              !.attrs = @ \ {attribute}],
                   "ok", 0)

AttributeIds == {a.id : a \in SeedAttributes}

DeleteAttribute(entity_id, attr_id) ==
    /\ LET r == delete_attribute(DB, entity_id, attr_id)
       IN /\ Commit(r.db)
          /\ Served("delete_attribute", r.status, "")
    /\ UNCHANGED <<clock, permVars, sessions>>

\* the attributes the designer asks to delete: the TEXT, the BOOLEAN and the
\* DATETIME attribute of entity type 2
DesignerAttributeIds == {a.id : a \in {x \in SeedAttributes : x.entity_type_id = 2}}

\* a GET of the create form or of the edit form: nothing is written
EntityCreateForm(user_id, entity_type_id) ==
    /\ Served("entity_create_form",
              entity_create_form(DB, user_roles, entity_permissions, user_id,
                                 entity_type_id).status, "")
    /\ UNCHANGED <<schemaVars, dataVars, permVars, sessions, clock>>

EntityEditForm(user_id, entity_type_id, instance_id) ==
    /\ Served("entity_edit_form",
              entity_edit_form(DB, user_roles, entity_permissions, user_id,
                               entity_type_id, instance_id).status, "")
    /\ UNCHANGED <<schemaVars, dataVars, permVars, sessions, clock>>

NextDesigner ==
    \/ NextWrite
    \/ \E et \in EntityTypeIds, a \in DesignerAttributeIds : DeleteAttribute(et, a)

\* the entity routes that write, and the designer's attribute deletes
SpecDesigner == InitApp /\ [][NextDesigner]_vars

NextForms ==
    \/ \E u \in DOMAIN Users, et \in EntityTypeIds :
          \E f \in PostedForms[et] : EntityCreate(u, et, f)
    \/ \E et \in EntityTypeIds, a \in DesignerAttributeIds : DeleteAttribute(et, a)
    \/ \E u \in DOMAIN Users, et \in EntityTypeIds : EntityCreateForm(u, et)
    \/ \E u \in DOMAIN Users, et \in EntityTypeIds, i \in InstanceIds :
          EntityEditForm(u, et, i)

\* the creates, the designer's attribute deletes and the pages of the create
\* and the edit form
SpecForms == InitApp /\ [][NextForms]_vars

(***************************************************************************)
(* Two requests in update_entity_instance_attributes at the same time.     *)
(* Each request has its own session and SQLite connection.  The stamped    *)
(* instance row is flushed (UPDATE entity_instances) by the autoflush of   *)
(* the first query of set_attribute_value, before the value row is looked  *)
(* up; SQLite admits one writer, so the UPDATE waits for the write lock    *)
(* and fails with "database is locked" when the wait times out.            *)
(***************************************************************************)
Others(s) == SessionIds \ {s}

WriteLockHeld == \E s \in SessionIds : sessions[s].pc = "writing"

\* instance = EntityInstance.query.get(instance_id); the stamps are set on
\* the loaded object
BeginUpdate(s, instance_id, code, value) ==
    /\ sessions[s].pc = "idle"
    /\ sessions' = [sessions EXCEPT ![s] =
          [pc |-> IF GetInstance(DB, instance_id) = NULL THEN "done" ELSE "loaded",
           instance_id |-> instance_id, code |-> code, value |-> value,
           seq |-> 0,
           error |-> IF GetInstance(DB, instance_id) = NULL THEN "notfound" ELSE ""]]
    /\ UNCHANGED <<schemaVars, dataVars, permVars, clock, last>>

\* the autoflush in set_attribute_value: the UPDATE of the instance row takes
\* the write lock of the database file
Flush(s) ==
    /\ sessions[s].pc = "loaded"
    /\ \A t \in Others(s) : sessions[t].pc # "writing"
    /\ sessions' = [sessions EXCEPT ![s].pc = "writing"]
    /\ UNCHANGED <<schemaVars, dataVars, permVars, clock, last>>

\* the UPDATE finds the write lock held until the busy timeout of the
\* connection runs out: OperationalError, rollback, raise e
DatabaseLocked(s) ==
    /\ sessions[s].pc = "loaded"
    /\ \E t \in Others(s) : sessions[t].pc = "writing"
    /\ sessions' = [sessions EXCEPT ![s].pc = "failed",
                                    ![s].error = "database is locked"]
    /\ UNCHANGED <<schemaVars, dataVars, permVars, clock, last>>

\* the rest of update_entity_instance_attributes under the write lock: the
\* value row is looked up and written, and db.session.commit() releases the
\* lock
CommitUpdate(s) ==
    /\ sessions[s].pc = "writing"
    /\ LET r == update_entity_instance_attributes(
                    DB, sessions[s].instance_id,
                    <<Entry(sessions[s].code, sessions[s].value)>>,
                    Str(Users[s]), clock)
       IN /\ Commit(r.db)
          /\ sessions' = [sessions EXCEPT
                ![s].pc = IF r.raised THEN "failed" ELSE "done",
                ![s].error = IF r.raised THEN "raised" ELSE "",
                ![s].seq = 1 + MaxOf({sessions[t].seq : t \in SessionIds})]
    /\ UNCHANGED <<permVars, clock, last>>

\* the values the two requests post for the NAME of an instance
ConcurrentValues == {Str("7.5"), Str("on")}

\* instances of entity type 2 created without and with a NAME
ConcurrentDicts == {<<>>, <<Entry("NAME", Str("2024-01-01"))>>}

NextConcurrent ==
    \/ \E d \in ConcurrentDicts : ~WriteLockHeld /\ CreateInstance(2, d, NULL)
    \/ \E s \in SessionIds, i \in InstanceIds, v \in ConcurrentValues :
          BeginUpdate(s, i, "NAME", v)
    \/ \E s \in SessionIds : Flush(s)
    \/ \E s \in SessionIds : DatabaseLocked(s)
    \/ \E s \in SessionIds : CommitUpdate(s)

\* two requests that update the NAME of instances of entity type 2
SpecConcurrent == Init /\ [][NextConcurrent]_vars

(***************************************************************************)
(* Properties of the value stores and of create / update                   *)
(***************************************************************************)
InstanceIdsIn(db) == {i.id : i \in db.instances}

\* the store the data model names for a data type ("none" for a type that
\* has no store)
StoreOfDataType(data_type) ==
    IF data_type \in {"VARCHAR", "TEXT"} THEN "text"
    ELSE IF data_type \in {"INT", "BIGINT", "DECIMAL"} THEN "numeric"
    ELSE IF data_type \in {"DATE", "DATETIME", "TIMESTAMP"} THEN "datetime"
    ELSE IF data_type = "BOOLEAN" THEN "boolean"
    ELSE "none"

RowsOfPair(rows, instance_id, attr_id) ==
    {r \in rows : r.entity_instance_id = instance_id
                  /\ r.attribute_definition_id = attr_id}

\* C1: after any sequence of create, update and set_attribute_value, every
\* value store holds at most one row per (instance, attribute) pair, and a
\* row of an attribute lies in the store its data_type selects.
C1_OneRowInTheTypedStore ==
    \A store \in StoreNames :
        \A r \in DB[store] :
            /\ Cardinality(RowsOfPair(DB[store], r.entity_instance_id,
                                      r.attribute_definition_id)) = 1
            /\ \E a \in attribute_definitions :
                  /\ a.id = r.attribute_definition_id
                  /\ StoreOfDataType(a.data_type) = store

\* rows in all four stores, two of them of one instance
C1_Witness ==
    /\ \A store \in StoreNames : DB[store] # {}
    /\ \E i \in entity_instances :
          Cardinality({r \in ValueRows(DB) : r.entity_instance_id = i.id}) >= 2

\* C2: set_attribute_value(A, None) followed by get_attribute_value(A)
\* returns None and leaves no row of (I, A) in any of the four stores,
\* whether or not a value was stored before.
C2_SetNoneClears ==
    \A i \in InstanceIdsIn(DB), code \in AttributeCodes :
        LET r == set_attribute_value(DB, i, code, NULL)
        IN /\ ~r.raised
           /\ get_attribute_value(r.db, i, code) = NULL
           /\ \A a \in attribute_definitions :
                 (a.code = code /\ a.entity_type_id = GetInstance(DB, i).entity_type_id)
                 => \A store \in StoreNames : RowsOfPair(r.db[store], i, a.id) = {}

\* a set_attribute_value(A, None) has just deleted the stored row
C2_Witness ==
    /\ last.op = "set_attribute_value"
    /\ last.status = "ok"
    /\ last.note = "deleted"

\* C9: a create_entity_instance_with_attributes call in which a value write
\* raises leaves the instance table and the four value stores as they were.
C9_CreateAllOrNothing ==
    [][(last'.op = "create" /\ last'.status = "raised")
        => UNCHANGED <<entity_instances, text_values, numeric_values,
                       datetime_values, boolean_values>>]_vars

\* a create has failed after it had written a value row
C9_Witness ==
    /\ last.op = "create"
    /\ last.status = "raised"
    /\ last.note = "partial"

\* the form in which the value stores keep a value of an attribute
StoredForm(data_type, v) ==
    IF StoreOfDataType(data_type) = "numeric" THEN Decimal(py_float(v).v.n)
    ELSE IF StoreOfDataType(data_type) = "boolean" THEN py_bool(v)
    ELSE IF StoreOfDataType(data_type) = "datetime" THEN v
    ELSE py_str(v)

\* what C10 asks of a successful update of instance i with dictionary d
UpdatePostcondition(db, i, d, updated_by, now) ==
    LET r == update_entity_instance_attributes(db, i, d, updated_by, now)
        et == GetInstance(db, i).entity_type_id
    IN (r.found /\ ~r.raised)
       => /\ GetInstance(r.db, i).updated_by = OrSystem(updated_by)
          /\ GetInstance(r.db, i).updated_at = now
          /\ \A k \in 1..Len(d) :
                \A a \in db.attrs :
                    (a.entity_type_id = et /\ a.code = d[k].code)
                    => IF d[k].value # NULL
                       THEN get_attribute_value(r.db, i, a.code)
                               = StoredForm(a.data_type, d[k].value)
                       ELSE /\ get_attribute_value(r.db, i, a.code) = NULL
                            /\ \A store \in StoreNames :
                                  RowsOfPair(r.db[store], i, a.id) = {}

\* C10: after update_entity_instance_attributes succeeds, updated_by and
\* updated_at are stamped and every entry (code, v) for an attribute of the
\* instance's entity type reads back as the stored form of v, or as None
\* with no row left when v is None.
C10_UpdateAppliesEveryEntry ==
    \A i \in InstanceIdsIn(DB) :
        \A d \in EavDicts[EntityTypeOf(i)] :
            UpdatePostcondition(DB, i, d, Str("alice"), clock + 1)

\* the same restricted to entries whose attribute has a value store
C10_HoldsForStoredTypes ==
    \A i \in InstanceIdsIn(DB) :
        \A d \in EavDicts[EntityTypeOf(i)] :
            (\A k \in 1..Len(d) : d[k].code # "META")
            => UpdatePostcondition(DB, i, d, Str("alice"), clock + 1)

(***************************************************************************)
(* Properties of the permission engine                                     *)
(***************************************************************************)
\* some role assigned to the user has a row for the entity type with the flag
HasCapability(user_id, entity_type_id, flag) ==
    \E ur \in user_roles : \E p \in entity_permissions :
        /\ ur.user_id = user_id
        /\ p.role_id = ur.role_id
        /\ p.entity_type_id = entity_type_id
        /\ p[flag]

\* C6: get_user_permissions returns a flag as true iff some EntityPermission
\* row of a role assigned to the user, for that entity type, has the flag;
\* an unknown user gets all four flags false.
C6_PermissionsAreTheOrOverRoles ==
    \A u \in UserIds, et \in EntityTypeIds, f \in Flags :
        get_user_permissions(user_roles, entity_permissions, u, et)[f]
            <=> (u \in DOMAIN Users /\ HasCapability(u, et, f))

\* alice has two roles, one with a row refusing can_read and one granting it,
\* and the id of no user is assigned a role that grants a flag
C6_Witness ==
    /\ \E p \in entity_permissions, q \in entity_permissions :
          /\ p.entity_type_id = 1 /\ q.entity_type_id = 1
          /\ p.role_id = 1 /\ q.role_id = 2
          /\ ~p.can_read /\ q.can_read
    /\ UserRoleIds(user_roles, 1) = {1, 2}
    /\ HasCapability(3, 1, "can_read")

(***************************************************************************)
(* Properties of the routes                                                *)
(***************************************************************************)
Now == clock + 1

\* C3: a create, update or soft-delete request by a user who lacks can_create,
\* can_update or can_delete on the entity type of the request is refused
\* before any write: no instance row, value row or audit row is added or
\* changed.
C3_DeniedWritesWriteNothing ==
    \A u \in DOMAIN Users, et \in EntityTypeIds :
        /\ ~HasCapability(u, et, "can_create") =>
              \A f \in PostedForms[et] :
                 LET r == entity_create(DB, user_roles, entity_permissions, u, et, f, Now)
                 IN r.status = "denied" /\ r.db = DB
        /\ ~HasCapability(u, et, "can_update") =>
              \A i \in InstanceIds, f \in PostedForms[et] :
                 LET r == entity_edit(DB, user_roles, entity_permissions, u, et, i, f, Now)
                 IN r.status \in {"denied", "notfound"} /\ r.db = DB
        /\ ~HasCapability(u, et, "can_delete") =>
              \A i \in InstanceIds :
                 LET r == entity_delete(DB, user_roles, entity_permissions, u, et, i, Now)
                 IN r.status = "denied" /\ r.db = DB

\* a delete of an existing active instance was refused to a user who can read
\* the instance's entity type but not delete in it, and the row is unchanged
C3_Witness ==
    /\ last.op = "entity_delete" /\ last.status = "denied"
    /\ \E i \in entity_instances :
          /\ i.is_active
          /\ HasCapability(1, i.entity_type_id, "can_read")
          /\ ~HasCapability(1, i.entity_type_id, "can_delete")

\* the rows of an instance: its entity_instances row and its value rows
RowsOfInstance(db, instance_id) ==
    <<{i \in db.instances : i.id = instance_id},
      {r \in ValueRows(db) : r.entity_instance_id = instance_id}>>

\* C4: the edit route changes an instance (its row or its value rows) only
\* when the user has can_update on the entity type the instance belongs to.
C4_EditNeedsUpdateOnOwnType ==
    \A u \in DOMAIN Users, et \in EntityTypeIds, i \in InstanceIds :
        \A f \in RequestForms[et] :
            LET instance == GetInstance(DB, i)
                r == entity_edit(DB, user_roles, entity_permissions, u, et, i, f, Now)
            IN (instance # NULL
                /\ ~HasCapability(u, instance.entity_type_id, "can_update"))
               => RowsOfInstance(r.db, i) = RowsOfInstance(DB, i)

\* the tables without the instances of an entity type and their value rows
Without(db, entity_type_id) ==
    LET gone == {i.id : i \in {x \in db.instances : x.entity_type_id = entity_type_id}}
    IN [db EXCEPT !.instances = {i \in @ : i.id \notin gone},
                  !.text = {r \in @ : r.entity_instance_id \notin gone},
                  !.numeric = {r \in @ : r.entity_instance_id \notin gone},
                  !.datetime = {r \in @ : r.entity_instance_id \notin gone},
                  !.boolean = {r \in @ : r.entity_instance_id \notin gone}]

\* what the four read paths return to a user, over every request of theirs
ReadBodies(db, u) ==
    [list |-> [et \in EntityTypeIds, page \in Pages |->
                  entity_list(db, user_roles, entity_permissions, u, et, page).body],
     detail |-> [et \in EntityTypeIds, i \in InstanceIds |->
                  entity_detail(db, user_roles, entity_permissions, u, et, i).body],
     dropdown |-> [et \in EntityTypeIds, code \in AttributeCodes,
                   display \in {""} \cup AttributeCodes, unique_only \in BOOLEAN |->
                  api_dropdown_options(db, user_roles, entity_permissions, u, et,
                                       code, display, unique_only).body],
     search |-> [et \in EntityTypeIds, q \in SearchTerms, page \in Pages |->
                  api_entity_search(db, user_roles, entity_permissions, u, et,
                                    q, page).body]]

\* C5: a user without can_read on an entity type receives no data of its
\* instances from the list page, the detail page, the dropdown API or the
\* search API: what they are served is what they would be served if the
\* instances of that type did not exist.
C5_NoReadNoData ==
    \A u \in DOMAIN Users, et \in EntityTypeIds :
        ~HasCapability(u, et, "can_read")
            => ReadBodies(DB, u) = ReadBodies(Without(DB, et), u)

\* the stored form of the text a form posts for an attribute
PostedValue(attr, text) ==
    LET c == ConvertField(attr.data_type, text)
    IN IF c.ok THEN Coerce(WriteStore(attr.data_type), c.v).v ELSE NULL

\* C7: a create whose form gives an is_unique attribute a value an existing
\* instance of the type already has fails and persists nothing.
C7_DuplicateUniqueRejected ==
    \A u \in DOMAIN Users, et \in EntityTypeIds :
        \A f \in RequestForms[et] :
            LET r == entity_create(DB, user_roles, entity_permissions, u, et, f, Now)
                taken == \E a \in attribute_definitions : \E i \in entity_instances :
                            /\ a.entity_type_id = et /\ a.is_unique
                            /\ i.entity_type_id = et
                            /\ f[a.code] # ""
                            /\ get_attribute_value(DB, i.id, a.code) = PostedValue(a, f[a.code])
            IN taken => (r.status # "ok" /\ r.db = DB)

\* C8: a create whose form leaves a required attribute missing or empty is
\* aborted with a validation error and persists nothing.
C8_MissingRequiredRejected ==
    \A u \in DOMAIN Users, et \in EntityTypeIds :
        \A f \in RequestForms[et] :
            LET r == entity_create(DB, user_roles, entity_permissions, u, et, f, Now)
                missing == \E a \in attribute_definitions :
                              a.entity_type_id = et /\ a.is_required /\ f[a.code] = ""
            IN missing => (r.status # "ok" /\ r.db = DB)

\* C11: a soft delete sets is_active to false, stamps updated_by and
\* updated_at, and leaves every text, numeric, datetime and boolean value row
\* of the instance in place and unchanged.
C11_SoftDeleteKeepsValueRows ==
    \A u \in DOMAIN Users, et \in EntityTypeIds, i \in InstanceIds :
        LET r == entity_delete(DB, user_roles, entity_permissions, u, et, i, Now)
            after == GetInstance(r.db, i)
        IN r.status = "ok" =>
              /\ after # NULL
              /\ ~after.is_active
              /\ after.updated_by = Username(u)
              /\ after.updated_at = Now
              /\ \A store \in StoreNames : r.db[store] = DB[store]
              /\ r.db.instances \ {after} = DB.instances \ {GetInstance(DB, i)}

\* an instance that has value rows was soft-deleted by the last request
C11_Witness ==
    /\ last.op = "entity_delete" /\ last.status = "ok"
    /\ \E i \in entity_instances :
          /\ ~i.is_active
          /\ i.updated_at = clock
          /\ i.updated_by \in {Username(u) : u \in DOMAIN Users}
          /\ \E r \in ValueRows(DB) : r.entity_instance_id = i.id

\* the audit rows a request added
AuditAdded(before, after) == after.audit \ before.audit

Mirrors(a, operation, entity_type_id, instance_id) ==
    /\ a.operation = operation
    /\ a.entity_type_id = entity_type_id
    /\ a.entity_instance_id = instance_id

\* C17: every successful create, update and soft delete of an instance is
\* mirrored by an audit row with the operation, the entity type id and the
\* instance id.
C17_EveryWriteIsAudited ==
    \A u \in DOMAIN Users, et \in EntityTypeIds :
        /\ \A f \in RequestForms[et] :
              LET r == entity_create(DB, user_roles, entity_permissions, u, et, f, Now)
              IN r.status = "ok" =>
                    \E a \in AuditAdded(DB, r.db) :
                        Mirrors(a, "CREATE", et, NextId(DB.instances))
        /\ \A i \in InstanceIds, f \in RequestForms[et] :
              LET r == entity_edit(DB, user_roles, entity_permissions, u, et, i, f, Now)
              IN r.status = "ok" =>
                    \E a \in AuditAdded(DB, r.db) : Mirrors(a, "UPDATE", et, i)
        /\ \A i \in InstanceIds :
              LET r == entity_delete(DB, user_roles, entity_permissions, u, et, i, Now)
              IN r.status = "ok" =>
                    \E a \in AuditAdded(DB, r.db) : Mirrors(a, "DELETE", et, i)

\* C18: the instance and value writes of a create, update or delete and its
\* audit row are committed together: no committed state holds the one
\* without the other.
C18_WritesAndAuditTogether ==
    /\ \A i \in entity_instances :
          /\ \E a \in audit_log : a.operation = "CREATE" /\ a.entity_instance_id = i.id
          /\ i.updated_by # NULL =>
                \E a \in audit_log :
                    a.operation \in {"UPDATE", "DELETE"} /\ a.entity_instance_id = i.id
          /\ ~i.is_active =>
                \E a \in audit_log : a.operation = "DELETE" /\ a.entity_instance_id = i.id
    /\ \A a \in audit_log :
          \E i \in entity_instances :
              /\ i.id = a.entity_instance_id
              /\ a.operation = "DELETE" => ~i.is_active
              /\ a.operation = "UPDATE" => i.updated_by # NULL

(***************************************************************************)
(* Properties of get_dropdown_options                                      *)
(***************************************************************************)
\* the display_attribute_code arguments: "" stands for an absent argument
DisplayArguments == AttributeCodes \cup {""}

\* the active instances of the type whose source attribute holds the value,
\* in the order the query returns them
Sharing(db, entity_type_id, source_code, value) ==
    SelectSeq(ActiveInstances(db, entity_type_id),
              LAMBDA i : get_attribute_value(db, i.id, source_code) = value)

\* C13: with unique_only = true no two options have the same value, however
\* many active instances share it, and the option kept for a value comes
\* from the first instance the query returned with that value.
C13_UniqueOnlyKeepsTheFirst ==
    \A et \in EntityTypeIds, code \in AttributeCodes, display \in DisplayArguments :
        LET options == get_dropdown_options(DB, et, code, display, TRUE)
        IN /\ \A j, k \in 1..Len(options) :
                  options[j].value = options[k].value => j = k
           /\ \A k \in 1..Len(options) :
                  options[k].instance_id = Head(Sharing(DB, et, code, options[k].value)).id

\* the dropdown API was asked while two active instances share a NAME
C13_Witness ==
    /\ last.op = "api_dropdown_options"
    /\ \E et \in EntityTypeIds :
          \E k \in 1..Len(get_dropdown_options(DB, et, "NAME", "", TRUE)) :
              Len(Sharing(DB, et, "NAME",
                          get_dropdown_options(DB, et, "NAME", "", TRUE)[k].value)) > 1

\* C14: the options are in ascending order of str(label), with unique_only
\* set and unset.
C14_OptionsAscendingByLabel ==
    \A et \in EntityTypeIds, code \in AttributeCodes, display \in DisplayArguments :
        \A unique_only \in BOOLEAN :
            LET options == get_dropdown_options(DB, et, code, display, unique_only)
            IN \A k \in 1..(Len(options) - 1) :
                   LabelRank(options[k].label) <= LabelRank(options[k + 1].label)

\* the dropdown API was asked while the instance with the larger id has the
\* smaller label
C14_Witness ==
    /\ last.op = "api_dropdown_options"
    /\ \E et \in EntityTypeIds :
          LET options == get_dropdown_options(DB, et, "NAME", "", FALSE)
          IN /\ Len(options) = 2
             /\ options[1].instance_id > options[2].instance_id
             /\ LabelRank(options[1].label) < LabelRank(options[2].label)

\* the entity type ids a caller can pass: those of the table and one that
\* no row has
EntityTypeArguments == EntityTypeIds \cup {3}

Resolves(db, entity_type_id, code) ==
    /\ entity_type_id \in EntityTypeIds
    /\ FindAttribute(db, entity_type_id, code) # NULL

\* C15: get_dropdown_options returns the empty list whenever the entity type,
\* the source attribute code or a given display attribute code does not
\* resolve.
C15_UnresolvedGivesNoOptions ==
    \A et \in EntityTypeArguments, code \in AttributeCodes, display \in DisplayArguments :
        \A unique_only \in BOOLEAN :
            (\/ ~Resolves(DB, et, code)
             \/ (display # "" /\ ~Resolves(DB, et, display)))
                => get_dropdown_options(DB, et, code, display, unique_only) = <<>>

(***************************************************************************)
(* Properties of the administrator's deletes                               *)
(***************************************************************************)
\* C12: after an instance is physically deleted none of its value rows is
\* left in the text, numeric, datetime or boolean store: no value row
\* references an instance that does not exist.
C12_NoOrphanValueRows ==
    \A store \in StoreNames :
        \A r \in DB[store] : r.entity_instance_id \in InstanceIdsIn(DB)

\* a bulk delete removed an instance that had value rows
C12_Witness ==
    /\ last.op = "bulk_action" /\ last.status = "ok" /\ last.note = "values"
    /\ Cardinality(entity_instances) < MaxInstances

(***************************************************************************)
(* Properties of the designer's attribute delete                           *)
(***************************************************************************)
\* the value rows of the four stores that reference the attribute
BlockingRows(db, attr_id) ==
    UNION {{<<store, r>> : r \in {x \in db[store] : x.attribute_definition_id = attr_id}} : store \in StoreNames}

\* C16: while a value row of any of the four stores references an attribute,
\* delete_attribute refuses: the attribute, its form field configurations
\* and the value rows stay as they are and the answer carries the number of
\* blocking rows.
C16_DeleteRefusedWhileReferenced ==
    \A et \in EntityTypeIds, a \in AttributeIds :
        LET r == delete_attribute(DB, et, a)
        IN (r.status # "notfound" /\ BlockingRows(DB, a) # {}) =>
              /\ r.status = "refused"
              /\ r.db = DB
              /\ r.count = Cardinality(BlockingRows(DB, a))

(***************************************************************************)
(* Properties of the permission answers after a change                     *)
(***************************************************************************)
Operations == {"READ", "CREATE", "UPDATE", "DELETE"}

\* some role the table assigns to the user has a row in the permission
\* table for the entity type with the flag
Granted(roles, perms, user_id, entity_type_id, flag) ==
    /\ user_id \in DOMAIN Users
    /\ \E ur \in roles : \E p \in perms :
          /\ ur.user_id = user_id
          /\ p.role_id = ur.role_id
          /\ p.entity_type_id = entity_type_id
          /\ p[flag]

\* the three permission functions, called after the step, answer from the
\* given tables
AnswersFrom(roles, perms) ==
    \A u \in UserIds :
        /\ \A et \in EntityTypeIds :
              /\ get_user_permissions(user_roles', entity_permissions', u, et)
                    = [f \in Flags |-> Granted(roles, perms, u, et, f)]
              /\ \A op \in Operations :
                    check_user_permissions(user_roles', entity_permissions', u, et, op)
                        <=> Granted(roles, perms, u, et, OperationFlag(op))
        /\ \A m \in ModuleIds :
              can_access_module(SeedEntityTypes, user_roles', entity_permissions', u, m)
                  <=> \E et \in SeedEntityTypes :
                          /\ et.module_id = m /\ et.is_active
                          /\ Granted(roles, perms, u, et.id, "can_read")

AfterRemove ==
    \A u \in AssignedUserIds, r \in RoleIds :
        remove_role(u, r) =>
            AnswersFrom(user_roles \ {[user_id |-> u, role_id |-> r]}, entity_permissions)

AfterAssign ==
    \A u \in AssignedUserIds, r \in RoleIds :
        assign_role(u, r) =>
            AnswersFrom(user_roles \cup {[user_id |-> u, role_id |-> r]}, entity_permissions)

AfterUpdate ==
    \A r \in RoleIds, et \in EntityTypeIds, data \in PermissionInputs :
        update_permission(r, et, data) =>
            AnswersFrom(user_roles,
                        {p \in entity_permissions : p.role_id # r \/ p.entity_type_id # et}
                            \cup {Permission(r, et, data)})

\* C20: after update_permission, assign_role or remove_role commits, the next
\* get_user_permissions, check_user_permissions and can_access_module answer
\* from the changed tables: the grants of a removed role are not counted, the
\* grants of an assigned role and the flags just posted are.
C20_AnswersFollowTheChange ==
    [][CASE last'.op = "remove_role" -> AfterRemove
         [] last'.op = "assign_role" -> AfterAssign
         [] last'.op = "update_permission" -> AfterUpdate
         [] OTHER -> TRUE]_vars

\* a role that grants can_read on an entity type was just removed from alice,
\* who has no other grant of it
C20_Witness ==
    /\ last.op = "remove_role" /\ last.status = "ok"
    /\ \E p \in entity_permissions :
          /\ p.can_read
          /\ p.role_id \notin UserRoleIds(user_roles, 1)
          /\ ~check_user_permissions(user_roles, entity_permissions, 1,
                                     p.entity_type_id, "READ")
          /\ \A m \in ModuleIds : ~can_access_module(SeedEntityTypes, user_roles, entity_permissions, 1, m)

(***************************************************************************)
(* Properties of concurrent updates                                        *)
(***************************************************************************)
\* the two requests are for the same (instance, attribute) pair
SamePair(s, t) ==
    /\ s # t
    /\ sessions[s].pc \notin {"idle"} /\ sessions[t].pc \notin {"idle"}
    /\ sessions[s].error # "notfound" /\ sessions[t].error # "notfound"
    /\ sessions[s].instance_id = sessions[t].instance_id
    /\ sessions[s].code = sessions[t].code

\* the value stored for the pair is the one of the request that committed
\* last, in one row
LastCommitWins(s, t) ==
    (sessions[s].pc = "done" /\ sessions[t].pc = "done"
        /\ sessions[s].seq > sessions[t].seq) =>
        /\ get_attribute_value(DB, sessions[s].instance_id, sessions[s].code)
              = sessions[s].value
        /\ Cardinality({r \in text_values :
                            /\ r.entity_instance_id = sessions[s].instance_id
                            /\ r.attribute_definition_id = 4}) = 1

C21_CheckIsTheFlagOfGetPermissions ==
    \A u \in UserIds, et \in EntityTypeIds, op \in Operations :
        check_user_permissions(user_roles, entity_permissions, u, et, op)
            = get_user_permissions(user_roles, entity_permissions, u, et)[OperationFlag(op)]

\* alice has both roles, and on some entity type one role's row grants
\* can_delete while the other's refuses it
C21_Witness ==
    /\ UserRoleIds(user_roles, 1) = RoleIds
    /\ \E et \in EntityTypeIds :
          /\ \E p \in PermissionsFor(entity_permissions, {1}, et) : ~p.can_delete
          /\ \E q \in PermissionsFor(entity_permissions, {2}, et) : q.can_delete
          /\ check_user_permissions(user_roles, entity_permissions, 1, et, "DELETE")

\* C22: can_access_module is true exactly when the user exists and some role
\* assigned to the user has can_read on an active entity type of the module;
\* it is false for a module without an active entity type and for an
\* unknown user, and the accessible entity types are those it counts.
C22_ModuleAccessIsReadOnAnActiveType ==
    \A types \in EntityTypeTables, u \in UserIds, m \in ModuleIds :
        LET readable == {et \in types : /\ et.module_id = m /\ et.is_active
                                        /\ Granted(user_roles, entity_permissions, u, et.id, "can_read")}
            accessible == get_accessible_entity_types_for_module(types, user_roles, entity_permissions, u, m)
        IN /\ can_access_module(types, user_roles, entity_permissions, u, m) <=> readable # {}
           /\ {accessible[k] : k \in 1..Len(accessible)} = {et.id : et \in readable}

\* alice reads entity type 1 through a role and entity type 2 through none,
\* and the id of no user is assigned a role that reads entity type 1
C22_Witness ==
    /\ Granted(user_roles, entity_permissions, 1, 1, "can_read")
    /\ ~Granted(user_roles, entity_permissions, 1, 2, "can_read")
    /\ \E p \in entity_permissions : p.entity_type_id = 2 /\ p.can_read
    /\ \E ur \in user_roles : \E p \in entity_permissions :
          ur.user_id = 3 /\ p.role_id = ur.role_id /\ p.entity_type_id = 1 /\ p.can_read
    /\ can_access_module(SeedEntityTypes, user_roles, entity_permissions, 1, 1)

(***************************************************************************)
(* Properties of the audit log                                             *)
(***************************************************************************)
\* C23: no create, update or soft delete changes or removes an audit row:
\* every row of audit_log is in audit_log unchanged after the step, and the
\* rows a step adds have ids no earlier row has.
C23_AuditLogOnlyGrows ==
    [][/\ audit_log \subseteq audit_log'
       /\ \A a \in audit_log' \ audit_log : \A b \in audit_log : a.id # b.id]_vars

\* an update was recorded after the create of the same instance
C23_Witness ==
    /\ last.op = "entity_edit" /\ last.status = "ok"
    /\ \E a \in audit_log, b \in audit_log :
          /\ a.entity_instance_id = b.entity_instance_id
          /\ a.operation = "CREATE" /\ b.operation = "UPDATE"
          /\ a.id < b.id

(***************************************************************************)
(* Properties of form processing                                           *)
(***************************************************************************)
\* the database after the designer has given the attribute a data type and
\* set is_required on its form fields
Designed(db, attr_id, data_type, is_required) ==
    [db EXCEPT !.attrs = {IF a.id = attr_id THEN [a EXCEPT !.data_type = data_type] ELSE a : a \in @},
               !.fields = {IF f.attribute_definition_id = attr_id
                           THEN [f EXCEPT !.is_required = is_required] ELSE f : f \in @}]

\* the data types the designer gives the ETA attribute of entity type 2
TemporalTypes == {"DATE", "DATETIME", "TIMESTAMP"}

\* a posted text that is no date
NotADate(text) == text # "" /\ \A l \in DateLiterals : l[1] # text

\* the create of entity type 2 on the designed database
CreateDesigned(u, f, data_type, is_required) ==
    entity_create(Designed(DB, 6, data_type, is_required), user_roles,
                  entity_permissions, u, 2, f, Now)

\* C24: a posted value that cannot be coerced to the data type of its
\* attribute makes the create fail with an error and write nothing when the
\* field is required, and otherwise the create goes through with no value
\* row for that attribute.
C24_CoercionFailureIsFatalOrNull ==
    \A u \in DOMAIN Users, f \in RequestForms[2], dt \in TemporalTypes, req \in BOOLEAN :
        (HasCapability(u, 2, "can_create") /\ NotADate(f["ETA"])) =>
            IF req
            THEN /\ CreateDesigned(u, f, dt, req).status = "error"
                 /\ CreateDesigned(u, f, dt, req).db = Designed(DB, 6, dt, req)
            ELSE /\ CreateDesigned(u, f, dt, req).status = "ok"
                 /\ \A r \in CreateDesigned(u, f, dt, req).db.datetime :
                        ~(r.attribute_definition_id = 6
                          /\ r.entity_instance_id = NextId(DB.instances))

(***************************************************************************)
(* Properties of the forms' dropdown data                                  *)
(***************************************************************************)
\* the fields of a form that are wired to a source attribute no row has
Dangling(db, entity_type_id, form_type) ==
    LET form_fields == FormFields(db, entity_type_id, form_type)
    IN {f \in {form_fields[i] : i \in DOMAIN form_fields} :
          /\ HasDropdownWiring(f)
          /\ \/ f.dropdown_source_entity_id \notin EntityTypeIds
             \/ ~\E a \in db.attrs : a.id = f.dropdown_source_attribute_id}

\* the page is served and carries no option list for the given fields
ServedWithout(db, page, fields) ==
    /\ page.status = "ok"
    /\ \A f \in fields :
          AttributeById(db, f.attribute_definition_id).code \notin DOMAIN page.dropdown_data

\* C25: a form with a field whose dropdown source entity type or source
\* attribute no longer exists is still served, to a user allowed to open it,
\* with no option list for that field, on the create form and on the edit
\* form.
C25_DanglingDropdownSourceIsNoWiring ==
    \A u \in DOMAIN Users, et \in EntityTypeIds :
        /\ (HasCapability(u, et, "can_create") /\ Dangling(DB, et, "CREATE") # {}) =>
              ServedWithout(DB, entity_create_form(DB, user_roles, entity_permissions, u, et),
                            Dangling(DB, et, "CREATE"))
        /\ \A i \in entity_instances :
              (HasCapability(u, et, "can_update") /\ Dangling(DB, et, "EDIT") # {}) =>
                  ServedWithout(DB, entity_edit_form(DB, user_roles, entity_permissions,
                                                     u, et, i.id),
                                Dangling(DB, et, "EDIT"))

OptionsOfInstances(db, entity_type_id, source_code, display_code) ==
    {[value |-> get_attribute_value(db, i.id, source_code),
      label |-> get_attribute_value(db, i.id,
                    IF display_code = "" THEN source_code ELSE display_code),
      instance_id |-> i.id] :
        i \in {x \in db.instances : /\ x.entity_type_id = entity_type_id
                                    /\ x.is_active
                                    /\ get_attribute_value(db, x.id, source_code) # NULL}}

\* C27: with unique_only unset and codes that resolve, get_dropdown_options
\* gives exactly one option for each active instance whose source value is
\* not null: value the source value, label the display attribute's value
\* (the source value when no display code is given), instance_id the
\* instance; inactive instances and instances without a source value give
\* none.
C27_OneOptionPerActiveInstance ==
    \A et \in EntityTypeIds, code \in AttributeCodes, display \in DisplayArguments :
        (Resolves(DB, et, code) /\ (display = "" \/ Resolves(DB, et, display))) =>
            LET options == get_dropdown_options(DB, et, code, display, FALSE)
            IN /\ {options[k] : k \in 1..Len(options)}
                     = OptionsOfInstances(DB, et, code, display)
               /\ Len(options) = Cardinality(OptionsOfInstances(DB, et, code, display))

\* the same with the label left out of the comparison
C27_ValuesAndInstances ==
    \A et \in EntityTypeIds, code \in AttributeCodes, display \in DisplayArguments :
        (Resolves(DB, et, code) /\ (display = "" \/ Resolves(DB, et, display))) =>
            LET options == get_dropdown_options(DB, et, code, display, FALSE)
            IN /\ {<<options[k].value, options[k].instance_id>> : k \in 1..Len(options)}
                     = {<<o.value, o.instance_id>> : o \in OptionsOfInstances(DB, et, code, display)}
               /\ Len(options) = Cardinality(OptionsOfInstances(DB, et, code, display))

(***************************************************************************)
(* Properties of fields that are not editable                              *)
(***************************************************************************)
\* the tables after the designer has cleared is_editable on the form fields
\* of an attribute
ReadOnly(db, attr_id) ==
    [db EXCEPT !.fields = {IF f.attribute_definition_id = attr_id
                           THEN [f EXCEPT !.is_editable = FALSE] ELSE f : f \in @}]

\* the value rows of an attribute
RowsOfAttribute(db, attr_id) ==
    {r \in ValueRows(db) : r.attribute_definition_id = attr_id}

\* C28: for an attribute whose form fields have is_editable = false,
\* process_form_data gives no entry with the code of the attribute, and no
\* create or edit through the form adds, changes or removes a value row of
\* the attribute.
C28_ReadOnlyFieldsAreNotWritten ==
    \A u \in DOMAIN Users, a \in attribute_definitions :
        \A f \in RequestForms[a.entity_type_id] :
            LET et == a.entity_type_id
                db == ReadOnly(DB, a.id)
                create == process_form_data(db, FormFields(db, et, "CREATE"), f)
                edit == process_form_data(db, FormFields(db, et, "EDIT"), f)
            IN /\ ~create.raised =>
                     \A k \in 1..Len(create.values) : create.values[k].code # a.code
               /\ ~edit.raised =>
                     \A k \in 1..Len(edit.values) : edit.values[k].code # a.code
               /\ RowsOfAttribute(entity_create(db, user_roles, entity_permissions,
                                                u, et, f, Now).db, a.id)
                     = RowsOfAttribute(db, a.id)
               /\ \A i \in entity_instances :
                     RowsOfAttribute(entity_edit(db, user_roles, entity_permissions,
                                                 u, et, i.id, f, Now).db, a.id)
                       = RowsOfAttribute(db, a.id)

(***************************************************************************)
(* Frame of update_entity_instance_attributes                              *)
(***************************************************************************)
\* the attributes of the instance's entity type that the dictionary names
Named(db, instance_id, attribute_values) ==
    {a.id : a \in {x \in db.attrs :
                     /\ x.entity_type_id = GetInstance(db, instance_id).entity_type_id
                     /\ \E k \in 1..Len(attribute_values) : attribute_values[k].code = x.code}}

\* the rows of a store outside the pairs of the instance with the attributes
Outside(rows, instance_id, attr_ids) ==
    {r \in rows : ~(r.entity_instance_id = instance_id
                    /\ r.attribute_definition_id \in attr_ids)}

\* C29: update_entity_instance_attributes leaves every value row that is not
\* a row of the given instance for an attribute of its entity type named in
\* the dictionary as it was, in each of the four stores, and leaves the rows
\* of the other instances as they were; a dictionary naming only codes that
\* are no attribute of the type changes no value row.
C29_UpdateTouchesOnlyNamedRows ==
    \A i \in entity_instances :
        \A d \in EavDicts[i.entity_type_id] :
            LET r == update_entity_instance_attributes(DB, i.id, d, Str("alice"), Now)
            IN /\ \A store \in StoreNames :
                     Outside(r.db[store], i.id, Named(DB, i.id, d))
                        = Outside(DB[store], i.id, Named(DB, i.id, d))
               /\ {x \in r.db.instances : x.id # i.id} = {x \in DB.instances : x.id # i.id}
               /\ Named(DB, i.id, d) = {} => ValueRows(r.db) = ValueRows(DB)

\* an update changes a value row of an instance that holds a row of an
\* attribute the dictionary does not name, while another instance holds
\* value rows too
C29_Witness ==
    \E i, j \in entity_instances :
        /\ i.id # j.id
        /\ \E r \in ValueRows(DB) : r.entity_instance_id = j.id
        /\ \E d \in EavDicts[i.entity_type_id] :
              LET u == update_entity_instance_attributes(DB, i.id, d, Str("alice"), Now)
              IN /\ ~u.raised
                 /\ ValueRows(u.db) # ValueRows(DB)
                 /\ \E r \in ValueRows(u.db) :
                       /\ r.entity_instance_id = i.id
                       /\ r.attribute_definition_id \notin Named(DB, i.id, d)

(***************************************************************************)
(* Properties of the listings after a soft delete                          *)
(***************************************************************************)
\* the ids of the instances whose is_active is set
ActiveIds == {i.id : i \in {x \in entity_instances : x.is_active}}

\* C30: the instance list page, the dropdown options and the search API
\* return instances with is_active = true only: a soft-deleted instance is
\* in none of them while its is_active is false.
C30_ListingsShowActiveInstancesOnly ==
    \A u \in DOMAIN Users, et \in EntityTypeIds :
        /\ \A page \in Pages :
              LET body == entity_list(DB, user_roles, entity_permissions, u, et, page).body
              IN \A k \in 1..Len(body) : body[k].id \in ActiveIds
        /\ \A code \in AttributeCodes, display \in DisplayArguments, unique_only \in BOOLEAN :
              LET options == get_dropdown_options(DB, et, code, display, unique_only)
              IN \A k \in 1..Len(options) : options[k].instance_id \in ActiveIds
        /\ \A q \in SearchTerms, page \in Pages :
              LET body == api_entity_search(DB, user_roles, entity_permissions, u, et, q, page).body
              IN \A k \in 1..Len(body) : body[k].id \in ActiveIds

\* the list page of an entity type was served while an instance of the
\* type is soft-deleted and still has its NAME value stored
C30_Witness ==
    /\ last.op = "entity_list"
    /\ last.status = "ok"
    /\ \E i \in entity_instances :
          /\ ~i.is_active
          /\ get_attribute_value(DB, i.id, "NAME") # NULL
          /\ \E u \in DOMAIN Users : HasCapability(u, i.entity_type_id, "can_read")

====
